---- MODULE Spec2Model ----
(***************************************************************************)
(* ViRDi resource-routing engine: one Resource with its global Buffer, the *)
(* Consumers attached to it with their local Buffers and notifiers, the    *)
(* demand-events of the OfferProduction streams, and the operations of     *)
(* app/services/buffer.py, app/services/prosumer.py, app/services/notify.py *)
(* and app/services/client.py, the OfferProduction, Produce and Consume    *)
(* handlers of virdi/grpc_service/service.py and the admin endpoints.      *)
(***************************************************************************)
EXTENDS Integers, Sequences, FiniteSets, TLC

\* ------------------------------------------------------------------ bounds
GlobalLimit == 2          \* buffer_limit of the Resource (from the config)
MaxConsumerLimit == 2     \* largest buffer_limit a Consumer is created with
MaxAmount == 4            \* largest amount of one add / remove call
MaxUnits == 5             \* cap on the units held by all buffers together
MaxTasks == 1             \* cap on the detached notify tasks per consumer

MaxFrames == 2            \* cap on the amount frames of one Produce stream
MaxCallAmount == 2        \* largest amount of a call that can be suspended
MaxQueue == 2             \* cap on the points waiting in _metrics_queue
BatchSize == 3            \* batch_size of write_metrics
MaxBatch == 4             \* cap on the points of a batch that is not written
MaxOversleep == 1         \* cap on the seconds a sleep takes longer than asked
MaxWait == 2              \* cap on the seconds a yield or event.wait() takes

ConsumerIds == {"c1", "c2"}
EventIds == {"e1", "e2"}
ProducerIds == {"p1", "p2"}
StreamIds == {"s1", "s2"}
AddIds == {"a1", "a2"}
RemoveIds == {"r1"}
NotifierTypes == {"none", "debug", "http_post"}
None == "-"

\* the resources of the config, and what a request can carry as client-id
\* metadata and as resource_id ("" is the default of a field that is not set)
ResourceIds == {"r1"}
ClientIds == {"k1"}
ClientInputs == {None} \cup ClientIds
ResourceInputs == {"", "r1", "rx"}

VARIABLES
    buffer,          \* Resource._buffer: [amount, limit]
    consumers,       \* Resource._consumers (= keys of Consumer._consumers)
    cbuffer,         \* Consumer._buffer per consumer id: [amount, limit]
    notifier,        \* Consumer._notifier per consumer id (its type)
    tasks,           \* detached notify tasks f() created and not yet run
    request_events,  \* Resource._request_events
    is_set,          \* asyncio.Event flag of each demand-event
    offer,           \* position of each OfferProduction handler
    requested,       \* history: a ProductionRequest was emitted on the
                     \* stream since the buffer last became not full
    last,            \* history: the operation that ran last, its
                     \* arguments, results and the state it started from
    added,           \* history: the sum of the amounts of the Resource.add
                     \* calls so far while no consumer was attached and no
                     \* other operation touched the buffers, -1 afterwards
    nlock,           \* Notifier._lock of each consumer's notifier is held
    in_flight,       \* invocations of the notifier's notify(amount, id) that
                     \* began and have not returned, per consumer
    handed,          \* the amount handed to the invocation in flight
    attached,        \* number of Consumer objects of each id in
                     \* Resource._consumers
    produce,         \* each Produce handler: its position, the frame in
                     \* hand, and history: frames received, adds made, and
                     \* whether an add answered keep_coming = false
    consume,         \* each Consume handler: its position, its client
                     \* session, its consumer and its event
    clients,         \* Client._clients: per client id the number of Client
                     \* objects made for it (0: no entry) and the keys of
                     \* the session's _consumers map
    metrics_queue,   \* points in _metrics_queue
    batch,           \* points in the batch of write_metrics
    write_metrics,   \* position of the write_metrics task
    metrics_shutdown,\* metrics_shutdown_event is set
    flush_due,       \* last_write + flush_interval <= time.time()
    timeout_alias,   \* the build: asyncio.TimeoutError is TimeoutError
                     \* (Python 3.11 and later) or a class of its own;
                     \* None until the first timeout shows which
    held,            \* history: points that were in the batch when the
                     \* shutdown event was set and have not been written
    lockq,           \* Consumer._buffer._lock per consumer id: the tasks
                     \* that called acquire, the holder first
    adds,            \* each Resource.add call that is suspended in
                     \* Consumer.distribute: its position and locals
    removes,         \* each Consumer.remove call that is suspended at the
                     \* lock of the local buffer: its position and locals
    band             \* a Consume handler's model of its client's buffer:
                     \* buffer_limit, max_rate, assumed_client_buffer_amount
                     \* (in quarter units) and the seconds since
                     \* last_state_time, with history of the last pull

notifyVars == <<nlock, in_flight, handed>>
streamVars == <<produce, consume>>
lockVars == <<lockq, adds, removes>>
engineVars == <<buffer, consumers, cbuffer, notifier, tasks, request_events,
                is_set, offer, requested, last, added, notifyVars, attached,
                clients, streamVars, lockVars>>
metricsVars == <<metrics_queue, batch, write_metrics, metrics_shutdown,
                 flush_due, timeout_alias, held>>

vars == <<engineVars, metricsVars, band>>

Min(a, b) == IF a < b THEN a ELSE b

RECURSIVE SumOver(_, _)
SumOver(f, S) ==
    IF S = {} THEN 0
    ELSE LET x == CHOOSE y \in S : TRUE IN f[x] + SumOver(f, S \ {x})

\* every ordering of a set, as a sequence (the outcomes of random.shuffle)
Orders(S) ==
    { s \in [1..Cardinality(S) -> S] :
        \A i, j \in 1..Cardinality(S) : i # j => s[i] # s[j] }

\* ------------------------------------------------------------------ Buffer
Buffer(limit, initial_amount) == [amount |-> initial_amount, limit |-> limit]

\* Buffer.add: the whole amount is added, the result tells "not yet full"
BufferAdd(b, amount) ==
    [buf |-> [b EXCEPT !.amount = b.amount + amount],
     ret |-> (b.amount + amount < b.limit)]

\* Buffer.remove: removes min(amount, _amount) and returns it
BufferRemove(b, amount) ==
    LET actual_amount == Min(amount, b.amount)
    IN  [buf |-> [b EXCEPT !.amount = b.amount - actual_amount],
         ret |-> actual_amount]

\* Buffer.remove_all
BufferRemoveAll(b) == BufferRemove(b, b.amount)

\* Buffer.is_full
IsFull(b) == b.amount >= b.limit

\* ------------------------------------------------------------- Distributor
\* DistributePass that gives the additional units to the last candidates
RECURSIVE DistributePassExtraLast(_, _, _, _, _)
DistributePassExtraLast(d, i, amount_per_consumer, n_additional, st) ==
    IF i > Len(d) THEN st
    ELSE LET consumer == d[i]
             amount_to_add ==
                 amount_per_consumer + (IF i > Len(d) - n_additional THEN 1 ELSE 0)
             actual_amount ==
                 Min(st.bufs[consumer].limit - st.bufs[consumer].amount,
                     amount_to_add)
         IN  DistributePassExtraLast(d, i + 1, amount_per_consumer, n_additional,
                 [bufs |-> [st.bufs EXCEPT
                               ![consumer] = BufferAdd(@, actual_amount).buf],
                  remaining |-> st.remaining - actual_amount,
                  affected |-> IF actual_amount > 0
                               THEN st.affected \cup {consumer}
                               ELSE st.affected,
                  next |-> IF actual_amount = amount_to_add
                           THEN Append(st.next, consumer)
                           ELSE st.next])

\* DistributePass that keeps every candidate for the next pass
RECURSIVE DistributePassRetainsAll(_, _, _, _, _)
DistributePassRetainsAll(d, i, amount_per_consumer, n_additional, st) ==
    IF i > Len(d) THEN st
    ELSE LET consumer == d[i]
             amount_to_add ==
                 amount_per_consumer + (IF i - 1 < n_additional THEN 1 ELSE 0)
             actual_amount ==
                 Min(st.bufs[consumer].limit - st.bufs[consumer].amount,
                     amount_to_add)
         IN  DistributePassRetainsAll(d, i + 1, amount_per_consumer, n_additional,
                 [bufs |-> [st.bufs EXCEPT
                               ![consumer] = BufferAdd(@, actual_amount).buf],
                  remaining |-> st.remaining - actual_amount,
                  affected |-> IF actual_amount > 0
                               THEN st.affected \cup {consumer}
                               ELSE st.affected,
                  next |-> Append(st.next, consumer)])

\* DistributePass without "remaining -= actual_amount"
RECURSIVE DistributePassKeepsRemaining(_, _, _, _, _)
DistributePassKeepsRemaining(d, i, amount_per_consumer, n_additional, st) ==
    IF i > Len(d) THEN st
    ELSE LET consumer == d[i]
             amount_to_add ==
                 amount_per_consumer + (IF i - 1 < n_additional THEN 1 ELSE 0)
             actual_amount ==
                 Min(st.bufs[consumer].limit - st.bufs[consumer].amount,
                     amount_to_add)
         IN  DistributePassKeepsRemaining(d, i + 1, amount_per_consumer,
                 n_additional,
                 [bufs |-> [st.bufs EXCEPT
                               ![consumer].amount = @ + actual_amount],
                  remaining |-> st.remaining,
                  affected |-> IF actual_amount > 0
                               THEN st.affected \cup {consumer}
                               ELSE st.affected,
                  next |-> IF actual_amount = amount_to_add
                           THEN Append(st.next, consumer)
                           ELSE st.next])

\* one pass of the for loop of Consumer.distribute over the candidates d
RECURSIVE DistributePass(_, _, _, _, _)
DistributePass(d, i, amount_per_consumer, n_additional, st) ==
    IF i > Len(d) THEN st
    ELSE LET consumer == d[i]
             amount_to_add ==
                 amount_per_consumer + (IF i - 1 < n_additional THEN 1 ELSE 0)
             actual_amount ==
                 Min(st.bufs[consumer].limit - st.bufs[consumer].amount,
                     amount_to_add)
         IN  DistributePass(d, i + 1, amount_per_consumer, n_additional,
                 [bufs |-> [st.bufs EXCEPT
                               ![consumer] = BufferAdd(@, actual_amount).buf],
                  remaining |-> st.remaining - actual_amount,
                  affected |-> IF actual_amount > 0
                               THEN st.affected \cup {consumer}
                               ELSE st.affected,
                  next |-> IF actual_amount = amount_to_add
                           THEN Append(st.next, consumer)
                           ELSE st.next])

\* the while loop of Consumer.distribute
RECURSIVE DistributeLoop(_, _)
DistributeLoop(distributable, st) ==
    IF st.remaining > 0 /\ distributable # <<>>
    THEN LET r == DistributePass(distributable, 1,
                      st.remaining \div Len(distributable),
                      st.remaining % Len(distributable),
                      [st EXCEPT !.next = <<>>])
         IN  DistributeLoop(r.next, r)
    ELSE st

\* DistributeSpill that stores only what fits below the limit
DistributeSpillClamped(remaining, remainder_buffer) ==
    IF remaining # 0
    THEN LET room == remainder_buffer.limit - remainder_buffer.amount
             a == BufferAdd(remainder_buffer,
                            IF room < 0 THEN 0 ELSE Min(remaining, room))
         IN  [buf |-> a.buf, keep_coming |-> a.ret]
    ELSE [buf |-> remainder_buffer, keep_coming |-> TRUE]

\* DistributeSpill that answers with the fullness of the remainder buffer also
\* when nothing remains
DistributeSpillByFullness(remaining, remainder_buffer) ==
    IF remaining # 0
    THEN LET a == BufferAdd(remainder_buffer, remaining)
         IN  [buf |-> a.buf, keep_coming |-> a.ret]
    ELSE [buf |-> remainder_buffer, keep_coming |-> ~IsFull(remainder_buffer)]

\* DistributeSpill that always answers keep_coming = true
DistributeSpillAlwaysTrue(remaining, remainder_buffer) ==
    IF remaining # 0
    THEN LET a == BufferAdd(remainder_buffer, remaining)
         IN  [buf |-> a.buf, keep_coming |-> TRUE]
    ELSE [buf |-> remainder_buffer, keep_coming |-> TRUE]

\* the spill of Consumer.distribute into the remainder buffer and its result
DistributeSpill(remaining, remainder_buffer) ==
    IF remaining # 0
    THEN LET a == BufferAdd(remainder_buffer, remaining)
         IN  [buf |-> a.buf, keep_coming |-> a.ret]
    ELSE [buf |-> remainder_buffer, keep_coming |-> TRUE]

\* Consumer.distribute that makes one pass only
DistributeOnePass(amount, distributable, bufs, remainder_buffer) ==
    LET s0 == [bufs |-> bufs, remaining |-> amount,
               affected |-> {}, next |-> <<>>]
        st == IF amount > 0 /\ distributable # <<>>
              THEN DistributePass(distributable, 1,
                       amount \div Len(distributable),
                       amount % Len(distributable), s0)
              ELSE s0
        sp == DistributeSpill(st.remaining, remainder_buffer)
    IN  [bufs |-> st.bufs, buf |-> sp.buf, keep_coming |-> sp.keep_coming,
         affected |-> st.affected, remaining |-> st.remaining]

\* Consumer.distribute(amount, consumers, remainder_buffer) for one shuffle
Distribute(amount, distributable, bufs, remainder_buffer) ==
    LET st == DistributeLoop(distributable,
                  [bufs |-> bufs, remaining |-> amount,
                   affected |-> {}, next |-> <<>>])
        sp == DistributeSpill(st.remaining, remainder_buffer)
    IN  [bufs |-> st.bufs, buf |-> sp.buf, keep_coming |-> sp.keep_coming,
         affected |-> st.affected, remaining |-> st.remaining]

\* ------------------------------------------------------------ history
Amounts == [c \in ConsumerIds |-> cbuffer[c].amount]

Pre == [buffer |-> buffer.amount, cbuffer |-> Amounts,
        consumers |-> consumers, is_set |-> is_set]

\* a Produce stream has been opened
Producing == \E p \in ProducerIds : produce[p].pc # "closed"

\* the record of an operation; at_limit tells that the global buffer held
\* exactly limit units in some state before the operation ended and after
\* the first Produce stream was opened
Op(name) ==
    [op |-> name, c |-> None, e |-> None, n |-> 0, ret |-> 0,
     keep_coming |-> TRUE, remaining |-> 0, from_global |-> 0,
     from_local |-> 0, warned |-> FALSE, code |-> "OK", emitted |-> 0,
     between |-> FALSE, order |-> <<>>, affected |-> {},
     notified |-> [c \in ConsumerIds |-> 0],
     at_limit |-> (last.at_limit
                      \/ (Producing /\ buffer.amount = buffer.limit)),
     pre |-> Pre]

\* requested[e] after a step that leaves the buffer b and the handlers o and
\* emits a ProductionRequest on the streams in emitted
NextRequested(b, o, emitted) ==
    [e \in EventIds |->
        IF o[e] = "closed" \/ IsFull(b) THEN FALSE
        ELSE IF e \in emitted THEN TRUE
        ELSE IF IsFull(buffer) THEN FALSE
        ELSE requested[e]]

TotalUnits == buffer.amount + SumOver(Amounts, ConsumerIds)

\* ---------------------------------------------------------------- Resource
\* Resource.remove that compares with the fullness it read before the
\* operation that ran last
ResourceRemoveOfStale(b, amount, ev) ==
    LET full_before == last.pre.buffer >= b.limit
        r == BufferRemove(b, amount)
    IN  [buf |-> r.buf, ret |-> r.ret,
         is_set |-> IF full_before /\ ~IsFull(r.buf)
                    THEN [e \in EventIds |-> ev[e] \/ e \in request_events]
                    ELSE ev]

\* Resource.remove: Buffer.remove, then every demand-event is set when the
\* buffer went from full to not full
ResourceRemoveOf(b, amount, ev) ==
    LET full_before == IsFull(b)
        r == BufferRemove(b, amount)
    IN  [buf |-> r.buf, ret |-> r.ret,
         is_set |-> IF full_before /\ ~IsFull(r.buf)
                    THEN [e \in EventIds |-> ev[e] \/ e \in request_events]
                    ELSE ev]

\* NotifyOf that notifies every consumer, affected or not
NotifyOfAll(t, affected) ==
    [c \in ConsumerIds |->
        IF c \in consumers /\ notifier[c] # "none" THEN t[c] + 1 ELSE t[c]]

\* Consumer.notify: a notifier with a coroutine notify gets a detached task
NotifyOf(t, affected) ==
    [c \in ConsumerIds |->
        IF c \in affected /\ notifier[c] # "none" THEN t[c] + 1 ELSE t[c]]

\* Consumer.remove: from the global buffer first, the residual from the local
\* buffer; the value returned is the result of the local Buffer.remove
ConsumerRemoveOf(c, amount, b, lb, ev) ==
    LET g == ResourceRemoveOf(b, amount, ev)
        l == BufferRemove(lb, amount - g.ret)
    IN  [buf |-> g.buf, lbuf |-> l.buf, is_set |-> g.is_set,
         from_global |-> g.ret, from_local |-> l.ret, ret |-> l.ret]

\* Consumer.remove_all: Buffer.remove_all on the global and the local buffer
ConsumerRemoveAllOf(b, lb) ==
    LET g == BufferRemoveAll(b)
        l == BufferRemoveAll(lb)
    IN  [buf |-> g.buf, lbuf |-> l.buf,
         from_global |-> g.ret, from_local |-> l.ret, ret |-> g.ret + l.ret]

\* ConsumerGet that finds no consumer
ConsumerGetNever(c) == None

\* Consumer.get(consumer_id): the consumer registered under the id, or None
ConsumerGet(c) == IF c \in consumers THEN c ELSE None

\* Resource.add_consumer: the drain of the global buffer into the new consumer
AddConsumerOf(b, lb) ==
    IF b.amount > 0
    THEN LET a == BufferAdd(lb, b.amount)
             r == BufferRemove(b, a.buf.amount)
         IN  [buf |-> r.buf, lbuf |-> a.buf, notify |-> TRUE]
    ELSE [buf |-> b, lbuf |-> lb, notify |-> FALSE]

\* ---------------------------------------------------------------- Notifier
\* NotifierAEnter without the lock: the body is entered at once
NotifierAEnterUnlocked(c) == TRUE

\* Notifier.__aenter__: the task goes on once it has acquired Notifier._lock
NotifierAEnter(c) == ~nlock[c]

\* NotifierAExit that leaves the lock held
NotifierAExitKeepsLock(c) == nlock

\* Notifier.__aexit__: Notifier._lock is released, on return and on exception
NotifierAExit(c) == [nlock EXCEPT ![c] = FALSE]

\* a Produce handler and a Consume handler
\* Client.get of a registry that makes a new Client on every call
ClientGetReplacing(client_id) ==
    [clients EXCEPT ![client_id] = [made |-> @.made + 1, consumers |-> {}]]

\* Client.get(client_id): under the creation lock, a Client is made and
\* entered in _clients when the id has no entry; the registry afterwards
ClientGet(client_id) ==
    IF clients[client_id].made = 0
    THEN [clients EXCEPT ![client_id] = [made |-> 1, consumers |-> {}]]
    ELSE clients

\* get_client_from_context: Client.get for the client-id metadata, if given
GetClientFromContext(client_id) ==
    IF client_id = None THEN clients ELSE ClientGet(client_id)

\* a Resource.add call in Consumer.distribute: the amount, the consumers of
\* the list, those whose locks it gathers, and the loop's distributable,
\* remaining and affected_consumers
AddCall(pc, amount, cs, locked, distributable, remaining, affected) ==
    [pc |-> pc, amount |-> amount, consumers |-> cs, locked |-> locked,
     distributable |-> distributable, remaining |-> remaining,
     affected |-> affected]

\* a Consumer.remove call: its consumer, what is left to take from the local
\* buffer and what Resource.remove returned
RemoveCall(pc, c, amount, from_global) ==
    [pc |-> pc, c |-> c, amount |-> amount, from_global |-> from_global]

\* the locals of a Consume handler that model the client's buffer; amounts
\* are counted in quarters of a unit, which 0.25 * L and 0.75 * L are
\* multiples of
Band(pc, buffer_limit, max_rate, assumed, elapsed, pull) ==
    [pc |-> pc, buffer_limit |-> buffer_limit, max_rate |-> max_rate,
     assumed |-> assumed, elapsed |-> elapsed, pull |-> pull]

\* history of a pull: whether it is the first (n = 1) or a later one (n = 2),
\* the assumed amount when the handler pulled, what it requested and got, the seconds it slept before and what drained from the
\* client's buffer since the stream opened (first pull only)
Pull(n, now, request, amount, slept, drained) ==
    [n |-> n, now |-> now, request |-> request, amount |-> amount,
     slept |-> slept, drained |-> drained]

NoPull == Pull(0, 0, 0, 0, 0, 0)

ProduceHandler(pc, amount, n_recv, n_add, stopped) ==
    [pc |-> pc, amount |-> amount, n_recv |-> n_recv, n_add |-> n_add,
     stopped |-> stopped]

ConsumeHandler(pc, client, c, event) ==
    [pc |-> pc, client |-> client, c |-> c, event |-> event]

Init ==
    /\ buffer = Buffer(GlobalLimit, 0)
    /\ consumers = {}
    /\ cbuffer = [c \in ConsumerIds |-> Buffer(0, 0)]
    /\ notifier = [c \in ConsumerIds |-> "none"]
    /\ tasks = [c \in ConsumerIds |-> 0]
    /\ request_events = {}
    /\ is_set = [e \in EventIds |-> FALSE]
    /\ offer = [e \in EventIds |-> "closed"]
    /\ requested = [e \in EventIds |-> FALSE]
    /\ last = [op |-> "init", c |-> None, e |-> None, n |-> 0, ret |-> 0,
               keep_coming |-> TRUE, remaining |-> 0, from_global |-> 0,
               from_local |-> 0, warned |-> FALSE, code |-> "OK",
               emitted |-> 0, between |-> FALSE, order |-> <<>>,
               affected |-> {}, notified |-> [c \in ConsumerIds |-> 0],
               at_limit |-> FALSE,
               pre |-> [buffer |-> 0,
                        cbuffer |-> [c \in ConsumerIds |-> 0],
                        consumers |-> {},
                        is_set |-> [e \in EventIds |-> FALSE]]]
    /\ added = 0
    /\ nlock = [c \in ConsumerIds |-> FALSE]
    /\ in_flight = [c \in ConsumerIds |-> 0]
    /\ handed = [c \in ConsumerIds |-> 0]
    /\ attached = [c \in ConsumerIds |-> 0]
    /\ produce = [p \in ProducerIds |-> ProduceHandler("closed", 0, 0, 0, FALSE)]
    /\ consume = [s \in StreamIds |->
                      ConsumeHandler("closed", None, None, FALSE)]
    /\ clients = [k \in ClientIds |-> [made |-> 0, consumers |-> {}]]
    /\ metrics_queue = 0
    /\ batch = 0
    /\ write_metrics = "waiting"
    /\ metrics_shutdown = FALSE
    /\ flush_due = FALSE
    /\ timeout_alias = None
    /\ held = 0
    /\ lockq = [c \in ConsumerIds |-> <<>>]
    /\ adds = [t \in AddIds |-> AddCall("idle", 0, {}, {}, <<>>, 0, {})]
    /\ removes = [r \in RemoveIds |-> RemoveCall("idle", None, 0, 0)]
    /\ band = Band("closed", 0, 0, 0, 0, NoPull)

\* Resource.add(amount): the distribution for one outcome of the shuffle, the
\* spill, and Consumer.notify for the affected consumers
Add(amount, order) ==
    LET d == Distribute(amount, order, cbuffer, buffer)
        t == NotifyOf(tasks, d.affected)
    IN  /\ TotalUnits + amount <= MaxUnits
        /\ \A c \in ConsumerIds : t[c] <= MaxTasks
        /\ buffer' = d.buf
        /\ cbuffer' = d.bufs
        /\ tasks' = t
        /\ requested' = NextRequested(d.buf, offer, {})
        /\ last' = [Op("add") EXCEPT !.n = amount,
                       !.keep_coming = d.keep_coming,
                       !.remaining = d.remaining,
                       !.order = order, !.affected = d.affected,
                       !.notified = [c \in ConsumerIds |-> t[c] - tasks[c]]]
        /\ added' = IF added >= 0 /\ consumers = {} THEN added + amount ELSE -1
        /\ UNCHANGED notifyVars
        /\ UNCHANGED attached
        /\ UNCHANGED clients
        /\ UNCHANGED <<metricsVars, band>>
        /\ UNCHANGED lockVars
        /\ UNCHANGED <<consumers, notifier, request_events, is_set, offer>>

\* Resource.add(amount) of the admin produce endpoint
ResourceAdd(amount, order) ==
    /\ Add(amount, order)
    /\ UNCHANGED streamVars

\* Resource.remove(amount)
ResourceRemove(amount) ==
    LET r == ResourceRemoveOf(buffer, amount, is_set)
    IN  /\ buffer' = r.buf
        /\ is_set' = r.is_set
        /\ requested' = NextRequested(r.buf, offer, {})
        /\ last' = [Op("remove") EXCEPT !.n = amount, !.ret = r.ret,
                       !.from_global = r.ret]
        /\ added' = -1
        /\ UNCHANGED notifyVars
        /\ UNCHANGED streamVars
        /\ UNCHANGED attached
        /\ UNCHANGED clients
        /\ UNCHANGED <<metricsVars, band>>
        /\ UNCHANGED lockVars
        /\ UNCHANGED <<consumers, cbuffer, notifier, tasks, request_events,
                       offer>>

\* Consumer.create(consumer_id, resource, buffer_limit, notifier=...): the new
\* Consumer, Resource.add_consumer with its drain, and the registration; it
\* does not look for a consumer of that id
Create(c, buffer_limit, ntype) ==
    LET a == AddConsumerOf(buffer, Buffer(buffer_limit, 0))
    IN  /\ consumers' = consumers \cup {c}
        /\ attached' = [attached EXCEPT ![c] = attached[c] + 1]
        /\ notifier' = [notifier EXCEPT ![c] = ntype]
        /\ buffer' = a.buf
        /\ cbuffer' = [cbuffer EXCEPT ![c] = a.lbuf]
        /\ tasks' = [tasks EXCEPT
                        ![c] = IF a.notify /\ ntype # "none" THEN 1 ELSE 0]
        /\ requested' = NextRequested(a.buf, offer, {})
        /\ last' = [Op("create") EXCEPT !.c = c, !.n = buffer_limit]
        /\ added' = -1
        /\ UNCHANGED notifyVars
        /\ UNCHANGED <<metricsVars, band>>
        /\ UNCHANGED lockVars
        /\ UNCHANGED <<request_events, is_set, offer>>

\* the admin create endpoint for an id that Consumer.get does not find
ConsumerCreate(c, buffer_limit, ntype) ==
    /\ ConsumerGet(c) = None
    /\ Create(c, buffer_limit, ntype)
    /\ UNCHANGED clients
    /\ UNCHANGED streamVars

\* the admin create endpoint for an id that Consumer.get finds: 409
ConsumerCreateConflict(c) ==
    /\ ConsumerGet(c) # None
    /\ last' = [Op("create_conflict") EXCEPT !.c = c, !.code = "409"]
    /\ UNCHANGED clients
    /\ UNCHANGED <<metricsVars, band>>
    /\ UNCHANGED lockVars
    /\ UNCHANGED <<buffer, consumers, cbuffer, notifier, tasks,
                   request_events, is_set, offer, requested, added,
                   notifyVars, attached, streamVars>>

\* Consumer.remove(amount) of the admin consume endpoint (manual pull mode)
ConsumerRemove(c, amount) ==
    LET r == ConsumerRemoveOf(c, amount, buffer, cbuffer[c], is_set)
    IN  /\ c \in consumers
        /\ notifier[c] = "none"
        /\ buffer' = r.buf
        /\ cbuffer' = [cbuffer EXCEPT ![c] = r.lbuf]
        /\ is_set' = r.is_set
        /\ requested' = NextRequested(r.buf, offer, {})
        /\ last' = [Op("consumer_remove") EXCEPT !.c = c, !.n = amount,
                       !.ret = r.ret, !.from_global = r.from_global,
                       !.from_local = r.from_local]
        /\ added' = -1
        /\ UNCHANGED notifyVars
        /\ UNCHANGED streamVars
        /\ UNCHANGED attached
        /\ UNCHANGED clients
        /\ UNCHANGED <<metricsVars, band>>
        /\ UNCHANGED lockVars
        /\ UNCHANGED <<consumers, notifier, tasks, request_events, offer>>

\* Consumer.remove_all()
ConsumerRemoveAll(c) ==
    LET r == ConsumerRemoveAllOf(buffer, cbuffer[c])
    IN  /\ c \in consumers
        /\ notifier[c] = "none"
        /\ buffer' = r.buf
        /\ cbuffer' = [cbuffer EXCEPT ![c] = r.lbuf]
        /\ requested' = NextRequested(r.buf, offer, {})
        /\ last' = [Op("remove_all") EXCEPT !.c = c, !.ret = r.ret,
                       !.from_global = r.from_global,
                       !.from_local = r.from_local]
        /\ added' = -1
        /\ UNCHANGED notifyVars
        /\ UNCHANGED streamVars
        /\ UNCHANGED attached
        /\ UNCHANGED clients
        /\ UNCHANGED <<metricsVars, band>>
        /\ UNCHANGED lockVars
        /\ UNCHANGED <<consumers, notifier, tasks, request_events, is_set,
                       offer>>

\* the admin consume endpoint without the notifier check
ConsumeEndpointUnchecked(c, amount) ==
    LET r == ConsumerRemoveOf(c, amount, buffer, cbuffer[c], is_set)
    IN  /\ c \in consumers
        /\ notifier[c] # "none"
        /\ buffer' = r.buf
        /\ cbuffer' = [cbuffer EXCEPT ![c] = r.lbuf]
        /\ is_set' = r.is_set
        /\ requested' = NextRequested(r.buf, offer, {})
        /\ last' = [Op("consumer_remove") EXCEPT !.c = c, !.n = amount,
                       !.ret = r.ret, !.from_global = r.from_global,
                       !.from_local = r.from_local]
        /\ added' = -1
        /\ UNCHANGED notifyVars
        /\ UNCHANGED streamVars
        /\ UNCHANGED attached
        /\ UNCHANGED clients
        /\ UNCHANGED <<metricsVars, band>>
        /\ UNCHANGED lockVars
        /\ UNCHANGED <<consumers, notifier, tasks, request_events, offer>>

\* the admin consume endpoint for a consumer with a notifier: 404, nothing
\* is removed
ConsumeEndpointRefused(c, amount) ==
    /\ ConsumerGet(c) # None
    /\ notifier[c] # "none"
    /\ last' = [Op("consume_refused") EXCEPT !.c = c, !.n = amount,
                   !.code = "404"]
    /\ UNCHANGED <<metricsVars, band>>
    /\ UNCHANGED lockVars
    /\ UNCHANGED <<buffer, consumers, cbuffer, notifier, tasks,
                   request_events, is_set, offer, requested, added,
                   notifyVars, attached, clients, streamVars>>

\* the admin consume endpoint for an id that Consumer.get does not find: 404
ConsumeEndpointNotFound(c, amount) ==
    /\ ConsumerGet(c) = None
    /\ last' = [Op("consume_not_found") EXCEPT !.c = c, !.n = amount,
                   !.code = "404"]
    /\ UNCHANGED <<metricsVars, band>>
    /\ UNCHANGED lockVars
    /\ UNCHANGED <<buffer, consumers, cbuffer, notifier, tasks,
                   request_events, is_set, offer, requested, added,
                   notifyVars, attached, clients, streamVars>>

\* what a notifier's notify(amount, consumer_id) can return
Taken(ntype, amount) ==
    IF ntype = "debug" THEN {amount}
    ELSE IF ntype = "http_post" THEN 0..MaxAmount
    ELSE {}

\* the detached task f() of Consumer.notify runs: the notifier is handed the
\* local amount and what it reports as taken is removed with Consumer.remove
NotifyRun(c, taken_amount) ==
    /\ tasks[c] > 0
    /\ notifier[c] \in {"debug", "http_post"}
    /\ NotifierAEnter(c)
    /\ tasks' = [tasks EXCEPT ![c] = tasks[c] - 1]
    /\ IF cbuffer[c].amount > 0
       THEN LET r == ConsumerRemoveOf(c, taken_amount, buffer, cbuffer[c],
                                      is_set)
            IN  /\ taken_amount \in Taken(notifier[c], cbuffer[c].amount)
                /\ buffer' = r.buf
                /\ cbuffer' = [cbuffer EXCEPT ![c] = r.lbuf]
                /\ is_set' = r.is_set
                /\ requested' = NextRequested(r.buf, offer, {})
                /\ last' = [Op("notify") EXCEPT !.c = c, !.n = taken_amount,
                               !.ret = r.ret, !.from_global = r.from_global,
                               !.from_local = r.from_local,
                               !.warned = (r.ret < taken_amount)]
       ELSE /\ taken_amount = 0
            /\ last' = [Op("notify") EXCEPT !.c = c]
            /\ UNCHANGED <<buffer, cbuffer, is_set, requested>>
    /\ added' = -1
    /\ UNCHANGED notifyVars
    /\ UNCHANGED streamVars
    /\ UNCHANGED attached
    /\ UNCHANGED clients
    /\ UNCHANGED <<metricsVars, band>>
    /\ UNCHANGED lockVars
    /\ UNCHANGED <<consumers, notifier, request_events, offer>>

\* the notifier's notify raises (http_post: raise_for_status, bad body)
NotifyFail(c) ==
    /\ tasks[c] > 0
    /\ NotifierAEnter(c)
    /\ notifier[c] = "http_post"
    /\ cbuffer[c].amount > 0
    /\ tasks' = [tasks EXCEPT ![c] = tasks[c] - 1]
    /\ last' = [Op("notify_fail") EXCEPT !.c = c]
    /\ added' = -1
    /\ UNCHANGED notifyVars
    /\ UNCHANGED streamVars
    /\ UNCHANGED attached
    /\ UNCHANGED clients
    /\ UNCHANGED <<metricsVars, band>>
    /\ UNCHANGED lockVars
    /\ UNCHANGED <<buffer, consumers, cbuffer, notifier, request_events,
                   is_set, offer, requested>>

\* ------------------------------------------- the notify task, step by step
\* a task f() of Consumer.notify enters "async with self._notifier", reads the
\* local amount and, when it is positive, calls the notifier's notify with it
\* and is suspended in the call; with nothing in the buffer it leaves at once
NotifyEnter(c) ==
    /\ tasks[c] > 0
    /\ notifier[c] = "http_post"
    /\ NotifierAEnter(c)
    /\ tasks' = [tasks EXCEPT ![c] = tasks[c] - 1]
    /\ IF cbuffer[c].amount > 0
       THEN /\ nlock' = [nlock EXCEPT ![c] = TRUE]
            /\ in_flight' = [in_flight EXCEPT ![c] = in_flight[c] + 1]
            /\ handed' = [handed EXCEPT ![c] = cbuffer[c].amount]
            /\ last' = [Op("notify_begin") EXCEPT !.c = c,
                           !.n = cbuffer[c].amount]
       ELSE /\ last' = [Op("notify") EXCEPT !.c = c]
            /\ UNCHANGED notifyVars
    /\ added' = -1
    /\ UNCHANGED streamVars
    /\ UNCHANGED attached
    /\ UNCHANGED clients
    /\ UNCHANGED <<metricsVars, band>>
    /\ UNCHANGED lockVars
    /\ UNCHANGED <<buffer, consumers, cbuffer, notifier, request_events,
                   is_set, offer, requested>>

\* the notifier's notify returns taken_amount: Consumer.remove(taken_amount),
\* the warning, and the end of the "async with" block
NotifyReturn(c, taken_amount) ==
    LET r == ConsumerRemoveOf(c, taken_amount, buffer, cbuffer[c], is_set)
    IN  /\ in_flight[c] > 0
        /\ taken_amount \in Taken(notifier[c], handed[c])
        /\ buffer' = r.buf
        /\ cbuffer' = [cbuffer EXCEPT ![c] = r.lbuf]
        /\ is_set' = r.is_set
        /\ requested' = NextRequested(r.buf, offer, {})
        /\ in_flight' = [in_flight EXCEPT ![c] = in_flight[c] - 1]
        /\ handed' = [handed EXCEPT ![c] = 0]
        /\ nlock' = NotifierAExit(c)
        /\ last' = [Op("notify") EXCEPT !.c = c, !.n = taken_amount,
                       !.ret = r.ret, !.from_global = r.from_global,
                       !.from_local = r.from_local,
                       !.warned = (r.ret < taken_amount)]
        /\ added' = -1
        /\ UNCHANGED streamVars
        /\ UNCHANGED attached
        /\ UNCHANGED clients
        /\ UNCHANGED <<metricsVars, band>>
        /\ UNCHANGED lockVars
        /\ UNCHANGED <<consumers, notifier, tasks, request_events, offer>>

\* the notifier's notify raises: the exception leaves the "async with" block
\* and ends the task
NotifyRaise(c) ==
    /\ in_flight[c] > 0
    /\ notifier[c] = "http_post"
    /\ in_flight' = [in_flight EXCEPT ![c] = in_flight[c] - 1]
    /\ handed' = [handed EXCEPT ![c] = 0]
    /\ nlock' = NotifierAExit(c)
    /\ last' = [Op("notify_fail") EXCEPT !.c = c, !.n = handed[c]]
    /\ added' = -1
    /\ UNCHANGED streamVars
    /\ UNCHANGED attached
    /\ UNCHANGED clients
    /\ UNCHANGED <<metricsVars, band>>
    /\ UNCHANGED lockVars
    /\ UNCHANGED <<buffer, consumers, cbuffer, notifier, tasks,
                   request_events, is_set, offer, requested>>

\* ------------------------------------------------- OfferProduction handler
\* OfferOpen with an add_request_event that sets the event in every case
OfferOpenSetting(e) ==
    /\ offer[e] = "closed"
    /\ offer' = [offer EXCEPT ![e] = "waiting"]
    /\ request_events' = request_events \cup {e}
    /\ is_set' = [is_set EXCEPT ![e] = TRUE]
    /\ requested' = NextRequested(buffer, offer', {})
    /\ last' = [Op("offer_open") EXCEPT !.e = e]
    /\ \E client_id \in ClientIds : clients' = GetClientFromContext(client_id)
    /\ UNCHANGED notifyVars
    /\ UNCHANGED streamVars
    /\ UNCHANGED attached
    /\ UNCHANGED <<metricsVars, band>>
    /\ UNCHANGED lockVars
    /\ UNCHANGED <<buffer, consumers, cbuffer, notifier, tasks, added>>

\* the stream opens: a new Event, Resource.add_request_event
OfferOpen(e) ==
    /\ offer[e] = "closed"
    /\ offer' = [offer EXCEPT ![e] = "waiting"]
    /\ request_events' = request_events \cup {e}
    /\ is_set' = [is_set EXCEPT ![e] = ~IsFull(buffer)]
    /\ requested' = NextRequested(buffer, offer', {})
    /\ last' = [Op("offer_open") EXCEPT !.e = e]
    /\ \E client_id \in ClientIds : clients' = GetClientFromContext(client_id)
    /\ UNCHANGED notifyVars
    /\ UNCHANGED streamVars
    /\ UNCHANGED attached
    /\ UNCHANGED <<metricsVars, band>>
    /\ UNCHANGED lockVars
    /\ UNCHANGED <<buffer, consumers, cbuffer, notifier, tasks, added>>

\* request_event.wait() returns and the ProductionRequest frame is yielded
OfferRequest(e) ==
    /\ offer[e] = "waiting"
    /\ is_set[e]
    /\ offer' = [offer EXCEPT ![e] = "yielded"]
    /\ requested' = NextRequested(buffer, offer', {e})
    /\ last' = [Op("offer_request") EXCEPT !.e = e]
    /\ UNCHANGED notifyVars
    /\ UNCHANGED streamVars
    /\ UNCHANGED attached
    /\ UNCHANGED clients
    /\ UNCHANGED <<metricsVars, band>>
    /\ UNCHANGED lockVars
    /\ UNCHANGED <<buffer, consumers, cbuffer, notifier, tasks,
                   request_events, is_set, added>>

\* the handler is resumed after the yield: request_event.clear()
OfferClear(e) ==
    /\ offer[e] = "yielded"
    /\ offer' = [offer EXCEPT ![e] = "waiting"]
    /\ is_set' = [is_set EXCEPT ![e] = FALSE]
    /\ requested' = NextRequested(buffer, offer', {})
    /\ last' = [Op("offer_clear") EXCEPT !.e = e]
    /\ UNCHANGED notifyVars
    /\ UNCHANGED streamVars
    /\ UNCHANGED attached
    /\ UNCHANGED clients
    /\ UNCHANGED <<metricsVars, band>>
    /\ UNCHANGED lockVars
    /\ UNCHANGED <<buffer, consumers, cbuffer, notifier, tasks,
                   request_events, added>>

\* OfferClose of a handler that leaves its event in the Resource's set
OfferCloseKeepsEvent(e) ==
    /\ offer[e] # "closed"
    /\ offer' = [offer EXCEPT ![e] = "closed"]
    /\ request_events' = request_events
    /\ is_set' = [is_set EXCEPT ![e] = FALSE]
    /\ requested' = NextRequested(buffer, offer', {})
    /\ last' = [Op("offer_close") EXCEPT !.e = e]
    /\ UNCHANGED notifyVars
    /\ UNCHANGED streamVars
    /\ UNCHANGED attached
    /\ UNCHANGED clients
    /\ UNCHANGED <<metricsVars, band>>
    /\ UNCHANGED lockVars
    /\ UNCHANGED <<buffer, consumers, cbuffer, notifier, tasks, added>>

\* the stream ends at one of its suspension points: the finally block runs
\* Resource.remove_request_event
OfferClose(e) ==
    /\ offer[e] # "closed"
    /\ offer' = [offer EXCEPT ![e] = "closed"]
    /\ request_events' = request_events \ {e}
    /\ is_set' = [is_set EXCEPT ![e] = FALSE]
    /\ requested' = NextRequested(buffer, offer', {})
    /\ last' = [Op("offer_close") EXCEPT !.e = e]
    /\ UNCHANGED notifyVars
    /\ UNCHANGED streamVars
    /\ UNCHANGED attached
    /\ UNCHANGED clients
    /\ UNCHANGED <<metricsVars, band>>
    /\ UNCHANGED lockVars
    /\ UNCHANGED <<buffer, consumers, cbuffer, notifier, tasks, added>>

\* --------------------------------------------------------- stream handlers
\* get_client_from_context and Resource.get of a handler's first lines: the
\* stream is aborted when the client-id is missing or the resource is unknown
FailedPrecondition(client_id, resource_id) ==
    client_id = None \/ resource_id \notin ResourceIds

\* ------------------------------------------------------- Produce handler
\* ProduceAfterAdd that goes on with the next frame whatever the answer
ProduceAfterAddIgnoring(continue_production) == "receiving"

\* the handler after an add: it aborts with RESOURCE_EXHAUSTED when
\* continue_production is false
ProduceAfterAdd(continue_production) ==
    IF continue_production THEN "receiving" ELSE "exhausted"

\* a Produce stream with a client-id and an init frame of a known resource
ProduceOpen(p) ==
    /\ produce[p].pc = "closed"
    /\ produce' = [produce EXCEPT ![p].pc = "receiving"]
    /\ last' = [Op("produce_open") EXCEPT !.e = p]
    /\ \E client_id \in ClientIds : clients' = GetClientFromContext(client_id)
    /\ UNCHANGED <<metricsVars, band>>
    /\ UNCHANGED lockVars
    /\ UNCHANGED <<buffer, consumers, cbuffer, notifier, tasks,
                   request_events, is_set, offer, requested, added,
                   notifyVars, attached, consume>>

\* a Produce stream without client-id, or whose first frame has no init
\* resource_id or names an unknown resource: FAILED_PRECONDITION
ProduceAbort(p, client_id, resource_id) ==
    /\ produce[p].pc = "closed"
    /\ FailedPrecondition(client_id, resource_id)
    /\ produce' = [produce EXCEPT ![p].pc = "failed"]
    /\ last' = [Op("produce_abort") EXCEPT !.e = p,
                   !.code = "FAILED_PRECONDITION"]
    /\ clients' = GetClientFromContext(client_id)
    /\ UNCHANGED <<metricsVars, band>>
    /\ UNCHANGED lockVars
    /\ UNCHANGED <<buffer, consumers, cbuffer, notifier, tasks,
                   request_events, is_set, offer, requested, added,
                   notifyVars, attached, consume>>

\* the inbound iterator yields the next frame: amount = request.amount
ProduceRecv(p, amount) ==
    /\ produce[p].pc = "receiving"
    /\ produce[p].n_recv < MaxFrames
    /\ produce' = [produce EXCEPT ![p].pc = "adding", ![p].amount = amount,
                                  ![p].n_recv = @ + 1]
    /\ last' = [Op("produce_recv") EXCEPT !.e = p, !.n = amount]
    /\ UNCHANGED clients
    /\ UNCHANGED <<metricsVars, band>>
    /\ UNCHANGED lockVars
    /\ UNCHANGED <<buffer, consumers, cbuffer, notifier, tasks,
                   request_events, is_set, offer, requested, added,
                   notifyVars, attached, consume>>

\* Client.handle_resource_production(resource, amount) for the frame in hand,
\* then the abort with RESOURCE_EXHAUSTED or the next turn of the loop
ProduceAdd(p, order) ==
    /\ produce[p].pc = "adding"
    /\ Add(produce[p].amount, order)
    /\ produce' = [produce EXCEPT
                      ![p].pc = ProduceAfterAdd(last'.keep_coming),
                      ![p].amount = 0,
                      ![p].n_add = @ + 1,
                      ![p].stopped = @ \/ ~last'.keep_coming]
    /\ UNCHANGED consume

\* the inbound iterator ends: the else branch of the loop, ProductionResponse
ProduceEnd(p) ==
    /\ produce[p].pc = "receiving"
    /\ produce' = [produce EXCEPT ![p].pc = "done"]
    /\ last' = [Op("produce_end") EXCEPT !.e = p]
    /\ UNCHANGED clients
    /\ UNCHANGED <<metricsVars, band>>
    /\ UNCHANGED lockVars
    /\ UNCHANGED <<buffer, consumers, cbuffer, notifier, tasks,
                   request_events, is_set, offer, requested, added,
                   notifyVars, attached, consume>>

\* ----------------------------------------- OfferProduction: the first lines
\* OfferAbort of a handler that registers its demand-event before the checks
OfferAbortRegistered(e, client_id, resource_id) ==
    /\ offer[e] = "closed"
    /\ FailedPrecondition(client_id, resource_id)
    /\ request_events' = request_events \cup {e}
    /\ last' = [Op("offer_abort") EXCEPT !.e = e,
                   !.code = "FAILED_PRECONDITION"]
    /\ clients' = GetClientFromContext(client_id)
    /\ UNCHANGED <<metricsVars, band>>
    /\ UNCHANGED lockVars
    /\ UNCHANGED <<buffer, consumers, cbuffer, notifier, tasks, is_set,
                   offer, requested, added, notifyVars, attached,
                   streamVars>>

\* an OfferProduction stream without client-id or for an unknown resource:
\* FAILED_PRECONDITION before the demand-event exists
OfferAbort(e, client_id, resource_id) ==
    /\ offer[e] = "closed"
    /\ FailedPrecondition(client_id, resource_id)
    /\ last' = [Op("offer_abort") EXCEPT !.e = e,
                   !.code = "FAILED_PRECONDITION"]
    /\ clients' = GetClientFromContext(client_id)
    /\ UNCHANGED <<metricsVars, band>>
    /\ UNCHANGED lockVars
    /\ UNCHANGED <<buffer, consumers, cbuffer, notifier, tasks,
                   request_events, is_set, offer, requested, added,
                   notifyVars, attached, streamVars>>

\* ------------------------------------------------------- Consume handler
\* Consumer.delete of Client.remove_consumer: the consumer leaves the registry
\* and the consumer set of its Resource, its buffer goes with it
ConsumerDelete(c) ==
    /\ consumers' = consumers \ {c}
    /\ attached' = [attached EXCEPT ![c] = IF @ > 0 THEN @ - 1 ELSE 0]
    /\ cbuffer' = [cbuffer EXCEPT ![c] = Buffer(0, 0)]
    /\ notifier' = [notifier EXCEPT ![c] = "none"]
    /\ tasks' = [tasks EXCEPT ![c] = 0]

\* a Consume stream without client-id or for an unknown resource:
\* FAILED_PRECONDITION before Client.add_consumer
ConsumeAbort(s, client_id, resource_id) ==
    /\ consume[s].pc = "closed"
    /\ FailedPrecondition(client_id, resource_id)
    /\ last' = [Op("consume_abort") EXCEPT !.e = s,
                   !.code = "FAILED_PRECONDITION"]
    /\ clients' = GetClientFromContext(client_id)
    /\ UNCHANGED <<metricsVars, band>>
    /\ UNCHANGED lockVars
    /\ UNCHANGED <<buffer, consumers, cbuffer, notifier, tasks,
                   request_events, is_set, offer, requested, added,
                   notifyVars, attached, streamVars>>

\* ConsumeDuplicate of a handler whose cleanup runs for the rejected stream
ConsumeDuplicateCleaning(s, c) ==
    /\ consume[s].pc = "closed"
    /\ ConsumerGet(c) # None
    /\ ConsumerDelete(c)
    /\ last' = [Op("consume_duplicate") EXCEPT !.c = c, !.e = s,
                   !.code = "FAILED_PRECONDITION"]
    /\ \E client_id \in ClientIds : clients' = GetClientFromContext(client_id)
    /\ UNCHANGED <<metricsVars, band>>
    /\ UNCHANGED lockVars
    /\ UNCHANGED <<buffer, request_events, is_set, offer, requested, added,
                   notifyVars, streamVars>>

\* a Consume stream for a consumer_id that Consumer.get finds:
\* Client.add_consumer raises ValueError, the handler aborts with
\* FAILED_PRECONDITION before its try/finally
ConsumeDuplicate(s, c) ==
    /\ consume[s].pc = "closed"
    /\ ConsumerGet(c) # None
    /\ last' = [Op("consume_duplicate") EXCEPT !.c = c, !.e = s,
                   !.code = "FAILED_PRECONDITION"]
    /\ \E client_id \in ClientIds : clients' = GetClientFromContext(client_id)
    /\ UNCHANGED <<metricsVars, band>>
    /\ UNCHANGED lockVars
    /\ UNCHANGED <<buffer, consumers, cbuffer, notifier, tasks,
                   request_events, is_set, offer, requested, added,
                   notifyVars, attached, streamVars>>

\* a Consume stream for a new consumer_id: Client.add_consumer creates the
\* Consumer with an event notifier and enters it in the session's map, then
\* event.set(); the handler is at the sleep of its first loop iteration
ConsumeOpen(s, c, buffer_limit) ==
    /\ consume[s].pc = "closed"
    /\ ConsumerGet(c) = None
    /\ Create(c, buffer_limit, "event")
    /\ \E client_id \in ClientIds :
           /\ clients' = [GetClientFromContext(client_id) EXCEPT
                              ![client_id].consumers = @ \cup {c}]
           /\ consume' = [consume EXCEPT ![s] =
                              ConsumeHandler("sleeping", client_id, c, TRUE)]
    /\ UNCHANGED produce

\* ConsumeClose of a handler without the finally block
ConsumeCloseUnclean(s) ==
    /\ consume[s].pc # "closed"
    /\ consume' = [consume EXCEPT ![s] =
                       ConsumeHandler("closed", None, None, FALSE)]
    /\ last' = [Op("consume_close") EXCEPT !.c = consume[s].c, !.e = s]
    /\ added' = -1
    /\ UNCHANGED <<metricsVars, band>>
    /\ UNCHANGED lockVars
    /\ UNCHANGED <<buffer, consumers, cbuffer, notifier, tasks,
                   request_events, is_set, offer, requested, notifyVars,
                   attached, clients, produce>>

\* the Consume stream ends at any point of its loop: the finally block runs
\* Client.remove_consumer, which deletes the Consumer and drops the id from
\* the session's map
ConsumeClose(s) ==
    /\ consume[s].pc # "closed"
    /\ ConsumerDelete(consume[s].c)
    /\ clients' = [clients EXCEPT
                       ![consume[s].client].consumers = @ \ {consume[s].c}]
    /\ consume' = [consume EXCEPT ![s] =
                       ConsumeHandler("closed", None, None, FALSE)]
    /\ last' = [Op("consume_close") EXCEPT !.c = consume[s].c, !.e = s]
    /\ added' = -1
    /\ UNCHANGED <<metricsVars, band>>
    /\ UNCHANGED lockVars
    /\ UNCHANGED <<buffer, request_events, is_set, offer, requested,
                   notifyVars, produce>>

\* one iteration of the Consume loop after its sleep: consumer.remove of the
\* amount that brings the assumed client buffer to 75% (an input here, it
\* depends on the time slept); a ResourceConsumption frame with the returned
\* amount is yielded when that is positive, otherwise the handler waits for
\* its event (and goes on at once, clearing it, when the event is set)
ConsumePull(s, amount) ==
    LET c == consume[s].c
        r == ConsumerRemoveOf(c, amount, buffer, cbuffer[c], is_set)
    IN  /\ consume[s].pc = "sleeping"
        /\ buffer' = r.buf
        /\ cbuffer' = [cbuffer EXCEPT ![c] = r.lbuf]
        /\ is_set' = r.is_set
        /\ requested' = NextRequested(r.buf, offer, {})
        /\ consume' = [consume EXCEPT ![s] =
               IF r.ret > 0 THEN [@ EXCEPT !.pc = "yielded"]
               ELSE IF @.event THEN [@ EXCEPT !.event = FALSE]
               ELSE [@ EXCEPT !.pc = "waiting"]]
        /\ last' = [Op("consume_pull") EXCEPT !.c = c, !.e = s, !.n = amount,
                       !.ret = r.ret, !.from_global = r.from_global,
                       !.from_local = r.from_local,
                       !.emitted = IF r.ret > 0 THEN r.ret ELSE 0]
        /\ added' = -1
        /\ UNCHANGED notifyVars
        /\ UNCHANGED attached
        /\ UNCHANGED clients
        /\ UNCHANGED <<metricsVars, band>>
        /\ UNCHANGED lockVars
        /\ UNCHANGED <<consumers, notifier, tasks, request_events, offer,
                       produce>>

\* the peer has taken the frame: the generator resumes after its yield and
\* starts the next iteration
ConsumeResume(s) ==
    /\ consume[s].pc = "yielded"
    /\ consume' = [consume EXCEPT ![s].pc = "sleeping"]
    /\ last' = [Op("consume_resume") EXCEPT !.c = consume[s].c, !.e = s]
    /\ UNCHANGED notifyVars
    /\ UNCHANGED attached
    /\ UNCHANGED clients
    /\ UNCHANGED <<metricsVars, band>>
    /\ UNCHANGED lockVars
    /\ UNCHANGED <<buffer, consumers, cbuffer, notifier, tasks,
                   request_events, is_set, offer, requested, added, produce>>

\* event.wait() returns for a handler that waited: event.clear(), next
\* iteration
ConsumeWake(s) ==
    /\ consume[s].pc = "waiting"
    /\ consume[s].event
    /\ consume' = [consume EXCEPT ![s].pc = "sleeping", ![s].event = FALSE]
    /\ last' = [Op("consume_wake") EXCEPT !.c = consume[s].c, !.e = s]
    /\ UNCHANGED notifyVars
    /\ UNCHANGED attached
    /\ UNCHANGED clients
    /\ UNCHANGED <<metricsVars, band>>
    /\ UNCHANGED lockVars
    /\ UNCHANGED <<buffer, consumers, cbuffer, notifier, tasks,
                   request_events, is_set, offer, requested, added, produce>>

\* the notify task of a consumer with an event notifier: the event of its
\* stream is set, nothing is taken
NotifyEvent(c) ==
    /\ tasks[c] > 0
    /\ notifier[c] = "event"
    /\ NotifierAEnter(c)
    /\ tasks' = [tasks EXCEPT ![c] = tasks[c] - 1]
    /\ consume' = [s \in StreamIds |->
                      IF consume[s].pc # "closed" /\ consume[s].c = c
                      THEN [consume[s] EXCEPT !.event = TRUE]
                      ELSE consume[s]]
    /\ last' = [Op("notify_event") EXCEPT !.c = c]
    /\ added' = -1
    /\ UNCHANGED clients
    /\ UNCHANGED <<metricsVars, band>>
    /\ UNCHANGED lockVars
    /\ UNCHANGED <<buffer, consumers, cbuffer, notifier, request_events,
                   is_set, offer, requested, notifyVars, attached, produce>>

\* ----------------------------------------------- the consumer buffer locks
Range(q) == {q[i] : i \in 1..Len(q)}

\* acquire of a lock that hands itself to the newest waiter
LockAcquireBarging(q, t) ==
    IF q = <<>> THEN <<t>> ELSE <<Head(q), t>> \o Tail(q)

\* asyncio.Lock.acquire by task t: the lock is taken when it is free and
\* nobody waits, otherwise t waits behind the earlier waiters
LockAcquire(q, t) == Append(q, t)

\* asyncio.Lock.release: the first waiter gets the lock
LockRelease(q) == Tail(q)

\* task t holds the buffer lock of consumer c
Holds(t, c) == lockq[c] # <<>> /\ Head(lockq[c]) = t

\* the acquire() tasks of the gather of call t have all returned
Gathered(t) == \A c \in adds[t].locked : Holds(t, c)

\* the units that Resource.add calls in flight have not yet stored
InFlight == SumOver([t \in AddIds |-> adds[t].remaining], AddIds)

\* a distribution over consumer c has made a pass and has not ended
Between(c) ==
    \E t \in AddIds : adds[t].pc = "passes" /\ c \in adds[t].consumers

\* AddGather that gathers only the lock of the first consumer of the shuffle
AddGatherFirst(t, amount, order) ==
    /\ adds[t].pc = "idle"
    /\ consumers # {}
    /\ TotalUnits + InFlight + amount <= MaxUnits
    /\ lockq' = [lockq EXCEPT ![order[1]] = LockAcquire(@, t)]
    /\ adds' = [adds EXCEPT ![t] =
                    AddCall("gather", amount, consumers, {order[1]}, order,
                            amount, {})]
    /\ last' = [Op("add_gather") EXCEPT !.n = amount]
    /\ added' = -1
    /\ UNCHANGED <<buffer, consumers, cbuffer, notifier, tasks,
                   request_events, is_set, offer, requested, notifyVars,
                   attached, clients, streamVars, removes, metricsVars, band>>

\* Resource.add(amount) with consumers attached, up to the gather of
\* Consumer.distribute: one acquire() task per consumer of the list is
\* started, all in one go, and the call is suspended until every one of
\* them has the lock; order is the outcome of the shuffle
AddGather(t, amount, order) ==
    /\ adds[t].pc = "idle"
    /\ consumers # {}
    /\ TotalUnits + InFlight + amount <= MaxUnits
    /\ lockq' = [c \in ConsumerIds |->
                    IF c \in consumers THEN LockAcquire(lockq[c], t)
                    ELSE lockq[c]]
    /\ adds' = [adds EXCEPT ![t] =
                    AddCall("gather", amount, consumers, consumers, order,
                            amount, {})]
    /\ last' = [Op("add_gather") EXCEPT !.n = amount]
    /\ added' = -1
    /\ UNCHANGED <<buffer, consumers, cbuffer, notifier, tasks,
                   request_events, is_set, offer, requested, notifyVars,
                   attached, clients, streamVars, removes, metricsVars, band>>

\* one pass of the while loop of Consumer.distribute, with the locks held
\* (the loop awaits Buffer.add for every consumer, so a pass is a step)
AddPass(t) ==
    LET a == adds[t]
        r == DistributePass(a.distributable, 1,
                 a.remaining \div Len(a.distributable),
                 a.remaining % Len(a.distributable),
                 [bufs |-> cbuffer, remaining |-> a.remaining,
                  affected |-> a.affected, next |-> <<>>])
    IN  /\ a.pc \in {"gather", "passes"}
        /\ Gathered(t)
        /\ a.remaining > 0 /\ a.distributable # <<>>
        /\ cbuffer' = r.bufs
        /\ adds' = [adds EXCEPT ![t] =
                        AddCall("passes", a.amount, a.consumers, a.locked,
                                r.next, r.remaining, r.affected)]
        /\ last' = [Op("add_pass") EXCEPT !.n = a.amount,
                       !.remaining = r.remaining]
        /\ UNCHANGED <<buffer, consumers, notifier, tasks, request_events,
                       is_set, offer, requested, added, notifyVars, attached,
                       clients, streamVars, lockq, removes, metricsVars, band>>

\* the loop of Consumer.distribute has ended: the finally block releases
\* every lock, the remainder is spilled into the global buffer and
\* Resource.add notifies the affected consumers
AddFinish(t) ==
    LET a == adds[t]
        sp == DistributeSpill(a.remaining, buffer)
    IN  /\ a.pc \in {"gather", "passes"}
        /\ Gathered(t)
        /\ ~(a.remaining > 0 /\ a.distributable # <<>>)
        /\ \A c \in ConsumerIds :
               NotifyOf(tasks, a.affected)[c] <= MaxTasks
        /\ lockq' = [c \in ConsumerIds |->
                        IF c \in a.locked THEN LockRelease(lockq[c])
                        ELSE lockq[c]]
        /\ buffer' = sp.buf
        /\ tasks' = NotifyOf(tasks, a.affected)
        /\ requested' = NextRequested(sp.buf, offer, {})
        /\ adds' = [adds EXCEPT ![t] = AddCall("idle", 0, {}, {}, <<>>, 0, {})]
        /\ last' = [Op("add") EXCEPT !.n = a.amount,
                       !.keep_coming = sp.keep_coming,
                       !.remaining = a.remaining,
                       !.affected = a.affected,
                       !.notified = [c \in ConsumerIds |->
                                        tasks'[c] - tasks[c]]]
        /\ UNCHANGED <<consumers, cbuffer, notifier, request_events, is_set,
                       offer, added, notifyVars, attached, clients,
                       streamVars, removes, metricsVars, band>>

\* Consumer.remove(amount) of the admin consume endpoint: Resource.remove,
\* then Buffer.remove on the local buffer under its lock; the call is
\* suspended at the lock when a distribution holds it
RemoveStart(r, c, amount) ==
    LET g == ResourceRemoveOf(buffer, amount, is_set)
        l == BufferRemove(cbuffer[c], amount - g.ret)
    IN  /\ removes[r].pc = "idle"
        /\ c \in consumers
        /\ notifier[c] = "none"
        /\ buffer' = g.buf
        /\ is_set' = g.is_set
        /\ requested' = NextRequested(g.buf, offer, {})
        /\ IF lockq[c] = <<>>
           THEN /\ cbuffer' = [cbuffer EXCEPT ![c] = l.buf]
                /\ last' = [Op("consumer_remove") EXCEPT !.c = c,
                               !.n = amount, !.ret = l.ret,
                               !.from_global = g.ret, !.from_local = l.ret,
                               !.between = Between(c)]
                /\ UNCHANGED <<lockq, removes>>
           ELSE /\ lockq' = [lockq EXCEPT ![c] = LockAcquire(@, r)]
                /\ removes' = [removes EXCEPT ![r] =
                                   RemoveCall("local", c, amount - g.ret,
                                              g.ret)]
                /\ last' = [Op("remove") EXCEPT !.c = c, !.n = amount,
                               !.ret = g.ret, !.from_global = g.ret]
                /\ UNCHANGED cbuffer
        /\ added' = -1
        /\ UNCHANGED <<consumers, notifier, tasks, request_events, offer,
                       notifyVars, attached, clients, streamVars, adds,
                       metricsVars, band>>

\* the suspended Consumer.remove gets the lock of the local buffer
RemoveLocal(r) ==
    LET c == removes[r].c
        l == BufferRemove(cbuffer[c], removes[r].amount)
    IN  /\ removes[r].pc = "local"
        /\ Holds(r, c)
        /\ cbuffer' = [cbuffer EXCEPT ![c] = l.buf]
        /\ lockq' = [lockq EXCEPT ![c] = LockRelease(@)]
        /\ removes' = [removes EXCEPT ![r] = RemoveCall("idle", None, 0, 0)]
        /\ last' = [Op("consumer_remove") EXCEPT !.c = c,
                       !.n = removes[r].amount + removes[r].from_global,
                       !.ret = l.ret, !.from_global = removes[r].from_global,
                       !.from_local = l.ret, !.between = Between(c)]
        /\ UNCHANGED <<buffer, consumers, notifier, tasks, request_events,
                       is_set, offer, requested, added, notifyVars, attached,
                       clients, streamVars, adds, metricsVars, band>>

\* ------------------------------------------- the Consume handler's band
\* the ConsumptionRequests: buffer_limit, max_rate (a multiple of 15 per
\* minute, so that a second drains whole quarters), current_buffer_amount
BandRequests ==
    {<<1, 45, 1>>, <<1, 15, 0>>, <<2, 60, 0>>, <<2, 30, 2>>, <<3, 45, 3>>,
     <<3, 60, 0>>, <<4, 15, 2>>, <<60, 60, 60>>}

\* what the client consumes in seconds s, in quarters: (s / 60) * max_rate
Decay(max_rate, s) == (4 * max_rate * s) \div 60

\* assumed_client_buffer_amount after seconds s: max(A - decay, 0)
AssumedAfter(assumed, max_rate, s) ==
    IF assumed - Decay(max_rate, s) > 0
    THEN assumed - Decay(max_rate, s) ELSE 0

\* calculate_time_until_buffer_at_25 for a buffer that would reach 50%
CalculateTimeUntilBufferAt50(buffer_amount, buffer_limit, rate) ==
    LET buffer_50 == 2 * buffer_limit
        quarters == buffer_amount - buffer_50
    IN  IF quarters > 0
        THEN (quarters * 15 + rate - 1) \div rate
        ELSE 0

\* calculate_time_until_buffer_at_25, called at state_time: the seconds
\* (buffer_amount - 0.25 * buffer_limit) / rate * 60, at least 0, as the
\* whole seconds a sleep of that length takes
CalculateTimeUntilBufferAt25(buffer_amount, buffer_limit, rate) ==
    LET buffer_25 == buffer_limit
        quarters == buffer_amount - buffer_25
    IN  IF quarters > 0
        THEN (quarters * 15 + rate - 1) \div rate
        ELSE 0

\* Python's round() of x quarters: to the nearest integer, a half to the
\* even one
Round(x) ==
    LET f == x \div 4
        r == x % 4
    IN  IF r < 2 THEN f
        ELSE IF r > 2 THEN f + 1
        ELSE IF f % 2 = 0 THEN f ELSE f + 1

\* the Consume stream opens: the locals are set from the request
BandOpen(buffer_limit, max_rate, current_buffer_amount) ==
    /\ band.pc = "closed"
    /\ band' = Band("loop", buffer_limit, max_rate,
                    4 * current_buffer_amount, 0, NoPull)
    /\ UNCHANGED <<engineVars, metricsVars>>

\* the top of the loop: the assumed amount is brought up to now, then the
\* handler sleeps until the assumed amount is at 25%; the sleep takes at
\* least the time asked for
BandSleep(oversleep) ==
    LET A == AssumedAfter(band.assumed, band.max_rate, band.elapsed)
        d == CalculateTimeUntilBufferAt25(A, band.buffer_limit,
                                          band.max_rate) + oversleep
    IN  /\ band.pc = "loop"
        /\ band' = [band EXCEPT !.pc = "slept", !.assumed = A,
                                !.elapsed = d]
        /\ UNCHANGED <<engineVars, metricsVars>>

\* round(amount_to_75) of the handler that has slept
BandRequest ==
    Round(3 * band.buffer_limit
              - AssumedAfter(band.assumed, band.max_rate, band.elapsed))

\* the pull: amount_to_75 from the assumed amount as of now, consumer.remove
\* of the rounded value returns amount, which is added to the assumed amount
BandPull(amount) ==
    LET now == AssumedAfter(band.assumed, band.max_rate, band.elapsed)
        amount_to_75 == 3 * band.buffer_limit - now
        request == Round(amount_to_75)
    IN  /\ band.pc = "slept"
        /\ amount \in 0..request
        /\ band' = [band EXCEPT
               !.pc = "pulled",
               !.assumed = @ + 4 * amount,
               !.pull = Pull(Min(band.pull.n + 1, 2), now, request, amount,
                             band.elapsed,
                             IF band.pull.n = 0 THEN band.assumed - now
                             ELSE 0)]
        /\ UNCHANGED <<engineVars, metricsVars>>

\* the frame is taken by the peer, or event.wait() returns: next iteration
BandResume(seconds) ==
    /\ band.pc = "pulled"
    /\ band' = [band EXCEPT !.pc = "loop", !.elapsed = @ + seconds]
    /\ UNCHANGED <<engineVars, metricsVars>>

\* the stream ends
BandClose ==
    /\ band.pc # "closed"
    /\ band' = Band("closed", 0, 0, 0, 0, NoPull)
    /\ UNCHANGED <<engineVars, metricsVars>>

\* ------------------------------------------------------------------ metrics
\* production_metric, called by the Produce handler after each add: a point
\* is put on the unbounded queue (the engine's state is not involved, so the
\* call is a step of its own here)
ProductionMetric ==
    /\ write_metrics \notin {"done", "crashed"}
    /\ metrics_queue < MaxQueue
    /\ metrics_queue' = metrics_queue + 1
    /\ UNCHANGED <<batch, write_metrics, metrics_shutdown, flush_due,
                   timeout_alias, held>>
    /\ UNCHANGED <<engineVars, band>>

\* time passes: the flush interval since the last write is over
MetricsFlushDue ==
    /\ write_metrics \notin {"done", "crashed"}
    /\ ~flush_due
    /\ flush_due' = TRUE
    /\ UNCHANGED <<metrics_queue, batch, write_metrics, metrics_shutdown,
                   timeout_alias, held>>
    /\ UNCHANGED <<engineVars, band>>

\* the loop of write_metrics without its test of the shutdown event
MetricsLoopForever == "waiting"

\* the test of the while loop of write_metrics: the position after an
\* iteration has ended
MetricsLoop == IF metrics_shutdown THEN "done" ELSE "waiting"

\* wait_for(_metrics_queue.get()) returns a point before the timeout: it is
\* appended; a batch of batch_size points is written, otherwise the
\* iteration ends
MetricsGet ==
    /\ write_metrics = "waiting"
    /\ ~flush_due
    /\ metrics_queue > 0
    /\ batch < MaxBatch
    /\ metrics_queue' = metrics_queue - 1
    /\ batch' = batch + 1
    /\ write_metrics' = IF batch' >= BatchSize THEN "writing" ELSE MetricsLoop
    /\ UNCHANGED <<metrics_shutdown, flush_due, timeout_alias, held>>
    /\ UNCHANGED <<engineVars, band>>

\* wait_for times out. Where asyncio.TimeoutError is TimeoutError the inner
\* handler passes and the batch is written because the interval is over;
\* otherwise the outer handler runs: a batch that is not empty is written
\* there, and the iteration ends
MetricsTimeout ==
    /\ write_metrics = "waiting"
    /\ flush_due
    /\ timeout_alias' \in (IF timeout_alias = None THEN {"yes", "no"}
                           ELSE {timeout_alias})
    /\ write_metrics' = IF timeout_alias' = "yes" THEN "writing"
                        ELSE IF batch > 0 THEN "flushing"
                        ELSE MetricsLoop
    /\ UNCHANGED <<metrics_queue, batch, metrics_shutdown, flush_due, held>>
    /\ UNCHANGED <<engineVars, band>>

\* write_api.write of the loop succeeds: batch.clear(), last_write is now
MetricsWrite ==
    /\ write_metrics = "writing"
    /\ batch' = 0
    /\ held' = 0
    /\ flush_due' = FALSE
    /\ write_metrics' = MetricsLoop
    /\ UNCHANGED <<metrics_queue, metrics_shutdown, timeout_alias>>
    /\ UNCHANGED <<engineVars, band>>

\* write_api.write of the loop raises: logged, then asyncio.sleep(10)
MetricsWriteError ==
    /\ write_metrics = "writing"
    /\ write_metrics' = "backoff"
    /\ UNCHANGED <<metrics_queue, batch, metrics_shutdown, flush_due,
                   timeout_alias, held>>
    /\ UNCHANGED <<engineVars, band>>

\* the sleep after a failed write is over: the iteration ends
MetricsBackoffEnd ==
    /\ write_metrics = "backoff"
    /\ write_metrics' = MetricsLoop
    /\ flush_due' = TRUE
    /\ UNCHANGED <<metrics_queue, batch, metrics_shutdown, timeout_alias,
                   held>>
    /\ UNCHANGED <<engineVars, band>>

\* write_api.write of the outer handler succeeds: batch.clear(); last_write
\* stays as it is
MetricsFlush ==
    /\ write_metrics = "flushing"
    /\ batch' = 0
    /\ held' = 0
    /\ write_metrics' = MetricsLoop
    /\ UNCHANGED <<metrics_queue, metrics_shutdown, flush_due,
                   timeout_alias>>
    /\ UNCHANGED <<engineVars, band>>

\* write_api.write of the outer handler raises: the exception leaves
\* write_metrics
MetricsFlushError ==
    /\ write_metrics = "flushing"
    /\ write_metrics' = "crashed"
    /\ UNCHANGED <<metrics_queue, batch, metrics_shutdown, flush_due,
                   timeout_alias, held>>
    /\ UNCHANGED <<engineVars, band>>

\* main after SIGINT/SIGTERM: metrics_shutdown_event.set(); the writer is
\* suspended at one of its awaits and reads the event at its next loop test
MainShutdown ==
    /\ ~metrics_shutdown
    /\ write_metrics \notin {"done", "crashed"}
    /\ metrics_shutdown' = TRUE
    /\ held' = batch
    /\ UNCHANGED <<metrics_queue, batch, write_metrics, flush_due,
                   timeout_alias>>
    /\ UNCHANGED <<engineVars, band>>

\* ------------------------------------------------------------ specifications
\* the engine: production, consumption and the notify tasks of two consumers
Next ==
    \/ \E amount \in 0..MaxAmount, order \in Orders(consumers) :
           ResourceAdd(amount, order)
    \/ \E amount \in 0..MaxAmount : ResourceRemove(amount)
    \/ \E c \in ConsumerIds, buffer_limit \in 1..MaxConsumerLimit,
          ntype \in NotifierTypes : ConsumerCreate(c, buffer_limit, ntype)
    \/ \E c \in ConsumerIds, amount \in 0..MaxAmount : ConsumerRemove(c, amount)
    \/ \E c \in ConsumerIds : ConsumerRemoveAll(c)
    \/ \E c \in ConsumerIds, taken_amount \in 0..MaxUnits :
           NotifyRun(c, taken_amount)
    \/ \E c \in ConsumerIds : NotifyFail(c)

Spec == Init /\ [][Next]_vars

\* the engine with one consumer and the OfferProduction streams on its Resource
DemandConsumerIds == {"c1"}

NextDemand ==
    \/ \E amount \in 0..MaxAmount, order \in Orders(consumers) :
           ResourceAdd(amount, order)
    \/ \E amount \in 0..MaxAmount : ResourceRemove(amount)
    \/ \E c \in DemandConsumerIds, buffer_limit \in 1..MaxConsumerLimit,
          ntype \in NotifierTypes : ConsumerCreate(c, buffer_limit, ntype)
    \/ \E c \in DemandConsumerIds, amount \in 0..MaxAmount :
           ConsumerRemove(c, amount)
    \/ \E c \in DemandConsumerIds : ConsumerRemoveAll(c)
    \/ \E c \in DemandConsumerIds, taken_amount \in 0..MaxUnits :
           NotifyRun(c, taken_amount)
    \/ \E c \in DemandConsumerIds : NotifyFail(c)
    \/ \E e \in EventIds : OfferOpen(e)
    \/ \E e \in EventIds : OfferRequest(e)
    \/ \E e \in EventIds : OfferClear(e)
    \/ \E e \in EventIds : OfferClose(e)

SpecDemand == Init /\ [][NextDemand]_vars

\* the OfferProduction streams against Resource.add and Resource.remove alone;
\* the event loop resumes a handler whose event is set or whose frame was taken
NextOffer ==
    \/ \E amount \in 0..MaxAmount : ResourceAdd(amount, <<>>)
    \/ \E amount \in 0..MaxAmount : ResourceRemove(amount)
    \/ \E e \in EventIds : OfferOpen(e)
    \/ \E e \in EventIds : OfferRequest(e)
    \/ \E e \in EventIds : OfferClear(e)
    \/ \E e \in EventIds : OfferClose(e)

SpecOffer ==
    /\ Init
    /\ [][NextOffer]_vars
    /\ \A e \in EventIds : WF_vars(OfferRequest(e)) /\ WF_vars(OfferClear(e))

\* the engine with one consumer and its notify tasks taken step by step: a
\* debug notifier returns without a suspension, an http_post notifier is
\* suspended in its call
NotifyConsumerIds == {"c1"}

NextNotify ==
    \/ \E amount \in 0..MaxAmount, order \in Orders(consumers) :
           ResourceAdd(amount, order)
    \/ \E amount \in 0..MaxAmount : ResourceRemove(amount)
    \/ \E c \in NotifyConsumerIds, buffer_limit \in 1..MaxConsumerLimit,
          ntype \in NotifierTypes : ConsumerCreate(c, buffer_limit, ntype)
    \/ \E c \in NotifyConsumerIds, taken_amount \in 0..MaxUnits :
           notifier[c] = "debug" /\ NotifyRun(c, taken_amount)
    \/ \E c \in NotifyConsumerIds : NotifyEnter(c)
    \/ \E c \in NotifyConsumerIds, taken_amount \in 0..MaxAmount :
           NotifyReturn(c, taken_amount)
    \/ \E c \in NotifyConsumerIds : NotifyRaise(c)

SpecNotify == Init /\ [][NextNotify]_vars

\* the Produce streams of two clients on the Resource, with one consumer that
\* is pulled by hand
ProduceConsumerIds == {"c1"}

NextProduce ==
    \/ \E p \in ProducerIds : ProduceOpen(p)
    \/ \E p \in ProducerIds, amount \in 0..MaxAmount : ProduceRecv(p, amount)
    \/ \E p \in ProducerIds, order \in Orders(consumers) : ProduceAdd(p, order)
    \/ \E p \in ProducerIds : ProduceEnd(p)
    \/ \E c \in ProduceConsumerIds, buffer_limit \in 1..MaxConsumerLimit :
           ConsumerCreate(c, buffer_limit, "none")
    \/ \E c \in ProduceConsumerIds, amount \in 0..MaxAmount :
           ConsumerRemove(c, amount)

SpecProduce == Init /\ [][NextProduce]_vars

\* the first lines and the end of the three stream handlers and the admin
\* create endpoint, for one consumer id that two Consume streams and the
\* endpoint compete for
SessionConsumerIds == {"c1"}
SessionEventIds == {"e1"}
SessionProducerIds == {"p1"}

NextSession ==
    \/ \E e \in SessionEventIds : OfferOpen(e)
    \/ \E e \in SessionEventIds : OfferClose(e)
    \/ \E e \in SessionEventIds, client_id \in ClientInputs,
          resource_id \in ResourceInputs : OfferAbort(e, client_id, resource_id)
    \/ \E p \in SessionProducerIds : ProduceOpen(p)
    \/ \E p \in SessionProducerIds, client_id \in ClientInputs,
          resource_id \in ResourceInputs :
           ProduceAbort(p, client_id, resource_id)
    \/ \E s \in StreamIds, c \in SessionConsumerIds,
          buffer_limit \in 1..MaxConsumerLimit : ConsumeOpen(s, c, buffer_limit)
    \/ \E s \in StreamIds, c \in SessionConsumerIds : ConsumeDuplicate(s, c)
    \/ \E s \in StreamIds, client_id \in ClientInputs,
          resource_id \in ResourceInputs :
           ConsumeAbort(s, client_id, resource_id)
    \/ \E s \in StreamIds : ConsumeClose(s)
    \/ \E c \in SessionConsumerIds, buffer_limit \in 1..MaxConsumerLimit,
          ntype \in NotifierTypes : ConsumerCreate(c, buffer_limit, ntype)
    \/ \E c \in SessionConsumerIds : ConsumerCreateConflict(c)
    \/ \E amount \in 0..MaxAmount, order \in Orders(consumers) :
           ResourceAdd(amount, order)
    \/ \E c \in SessionConsumerIds, taken_amount \in 0..MaxUnits :
           NotifyRun(c, taken_amount)
    \/ \E c \in SessionConsumerIds : NotifyEvent(c)

SpecSession == Init /\ [][NextSession]_vars

\* the Consume loop of the streams of one client that compete for one
\* consumer id, with production into the Resource
ConsumeConsumerIds == {"c1"}

NextConsume ==
    \/ \E s \in StreamIds, c \in ConsumeConsumerIds,
          buffer_limit \in 1..MaxConsumerLimit : ConsumeOpen(s, c, buffer_limit)
    \/ \E s \in StreamIds, c \in ConsumeConsumerIds : ConsumeDuplicate(s, c)
    \/ \E s \in StreamIds, amount \in 0..MaxAmount : ConsumePull(s, amount)
    \/ \E s \in StreamIds : ConsumeResume(s)
    \/ \E s \in StreamIds : ConsumeWake(s)
    \/ \E s \in StreamIds : ConsumeClose(s)
    \/ \E c \in ConsumeConsumerIds : NotifyEvent(c)
    \/ \E amount \in 0..MaxAmount, order \in Orders(consumers) :
           ResourceAdd(amount, order)

SpecConsume == Init /\ [][NextConsume]_vars

\* the Consume loop with pulls of at least one unit and with its scheduling:
\* a handler that can pull, resume or wake does so, and a notify task that
\* was created runs
NextConsumeLive ==
    \/ \E s \in StreamIds, c \in ConsumeConsumerIds,
          buffer_limit \in 1..MaxConsumerLimit : ConsumeOpen(s, c, buffer_limit)
    \/ \E s \in StreamIds, c \in ConsumeConsumerIds : ConsumeDuplicate(s, c)
    \/ \E s \in StreamIds, amount \in 1..MaxAmount : ConsumePull(s, amount)
    \/ \E s \in StreamIds : ConsumeResume(s)
    \/ \E s \in StreamIds : ConsumeWake(s)
    \/ \E s \in StreamIds : ConsumeClose(s)
    \/ \E c \in ConsumeConsumerIds : NotifyEvent(c)
    \/ \E amount \in 0..MaxAmount, order \in Orders(consumers) :
           ResourceAdd(amount, order)

SpecConsumeLive ==
    /\ Init
    /\ [][NextConsumeLive]_vars
    /\ \A s \in StreamIds :
           /\ WF_vars(\E amount \in 1..MaxAmount : ConsumePull(s, amount))
           /\ WF_vars(ConsumeResume(s))
           /\ WF_vars(ConsumeWake(s))
    /\ \A c \in ConsumeConsumerIds : WF_vars(NotifyEvent(c))

\* the admin endpoints on one consumer id: create, produce and consume, with
\* the notify tasks of a consumer that has a notifier
AdminConsumerIds == {"c1"}

NextAdmin ==
    \/ \E c \in AdminConsumerIds, buffer_limit \in 1..MaxConsumerLimit,
          ntype \in NotifierTypes : ConsumerCreate(c, buffer_limit, ntype)
    \/ \E c \in AdminConsumerIds : ConsumerCreateConflict(c)
    \/ \E amount \in 0..MaxAmount, order \in Orders(consumers) :
           ResourceAdd(amount, order)
    \/ \E c \in AdminConsumerIds, amount \in 0..MaxAmount :
           ConsumerRemove(c, amount)
    \/ \E c \in AdminConsumerIds, amount \in 0..MaxAmount :
           ConsumeEndpointRefused(c, amount)
    \/ \E c \in AdminConsumerIds, amount \in 0..MaxAmount :
           ConsumeEndpointNotFound(c, amount)
    \/ \E c \in AdminConsumerIds, taken_amount \in 0..MaxUnits :
           NotifyRun(c, taken_amount)

SpecAdmin == Init /\ [][NextAdmin]_vars

\* the metrics pipeline: points put by the Produce handlers, the
\* write_metrics task and the shutdown of main
NextMetrics ==
    \/ ProductionMetric
    \/ MetricsFlushDue
    \/ MetricsGet
    \/ MetricsTimeout
    \/ MetricsWrite
    \/ MetricsWriteError
    \/ MetricsBackoffEnd
    \/ MetricsFlush
    \/ MetricsFlushError
    \/ MainShutdown

SpecMetrics == Init /\ [][NextMetrics]_vars

\* the metrics pipeline under the scheduling of the event loop: time passes,
\* so the timeout of wait_for and the sleep after a failed write expire, and
\* every await of write_metrics returns or raises; nothing is assumed about
\* the producers, the outcome of a write or the moment of the shutdown
SpecMetricsLive ==
    /\ Init
    /\ [][NextMetrics]_vars
    /\ WF_vars(\/ MetricsFlushDue
               \/ MetricsGet
               \/ MetricsTimeout
               \/ MetricsWrite
               \/ MetricsWriteError
               \/ MetricsBackoffEnd
               \/ MetricsFlush
               \/ MetricsFlushError)

\* concurrent Resource.add calls over the consumers attached, Consumer.remove
\* calls and Resource.add_consumer, with the buffer locks of the consumers
LockConsumerIds == {"c1", "c2"}

NextLocks ==
    \/ \E c \in LockConsumerIds, buffer_limit \in 1..MaxConsumerLimit :
           ConsumerCreate(c, buffer_limit, "none")
    \/ \E t \in AddIds, amount \in 1..MaxCallAmount,
          order \in Orders(consumers) : AddGather(t, amount, order)
    \/ \E t \in AddIds : AddPass(t)
    \/ \E t \in AddIds : AddFinish(t)
    \/ \E r \in RemoveIds, c \in LockConsumerIds,
          amount \in 1..MaxCallAmount : RemoveStart(r, c, amount)
    \/ \E r \in RemoveIds : RemoveLocal(r)

SpecLocks == Init /\ [][NextLocks]_vars

\* concurrent Resource.add and Resource.remove calls on the Resource with one
\* consumer and one OfferProduction stream
WakeConsumerIds == {"c1"}
WakeAddIds == {"a1"}
WakeEventIds == {"e1"}

NextWake ==
    \/ \E c \in WakeConsumerIds, buffer_limit \in 1..MaxConsumerLimit :
           ConsumerCreate(c, buffer_limit, "none")
    \/ \E t \in WakeAddIds, amount \in 1..MaxAmount,
          order \in Orders(consumers) : AddGather(t, amount, order)
    \/ \E t \in WakeAddIds : AddPass(t)
    \/ \E t \in WakeAddIds : AddFinish(t)
    \/ \E amount \in 1..MaxCallAmount : ResourceRemove(amount)
    \/ \E r \in RemoveIds, c \in WakeConsumerIds, amount \in 1..MaxCallAmount :
           RemoveStart(r, c, amount)
    \/ \E r \in RemoveIds : RemoveLocal(r)
    \/ \E e \in WakeEventIds : OfferOpen(e)
    \/ \E e \in WakeEventIds : OfferRequest(e)
    \/ \E e \in WakeEventIds : OfferClear(e)
    \/ \E e \in WakeEventIds : OfferClose(e)

SpecWake == Init /\ [][NextWake]_vars

\* the Consume handler's model of the client's buffer for the requests of
\* BandRequests; a pull returns nothing, a unit or two, or all it asked for
NextBand ==
    \/ \E request \in BandRequests :
           BandOpen(request[1], request[2], request[3])
    \/ \E oversleep \in 0..MaxOversleep : BandSleep(oversleep)
    \/ \E amount \in 0..60 :
           /\ amount <= MaxCallAmount \/ amount = BandRequest
           /\ BandPull(amount)
    \/ \E seconds \in 0..MaxWait : BandResume(seconds)
    \/ BandClose

SpecBand == Init /\ [][NextBand]_vars

\* ==================================================================== claims
SumAmounts == SumOver(Amounts, ConsumerIds)
SumBefore == SumOver(last.pre.cbuffer, ConsumerIds)
WasFull == last.pre.buffer >= buffer.limit

\* the consumers attached when the last operation started were all empty and
\* had the same limit lc
EmptyEqualConsumers(lc) ==
    \A c \in last.pre.consumers :
        last.pre.cbuffer[c] = 0 /\ cbuffer[c].limit = lc

\* C1: after any operation returns, the global buffer and the local buffer of
\* every consumer hold between 0 and limit units.
C1_BufferBound ==
    /\ 0 <= buffer.amount /\ buffer.amount <= buffer.limit
    /\ \A c \in consumers :
           0 <= cbuffer[c].amount /\ cbuffer[c].amount <= cbuffer[c].limit

\* C2: Consumer.remove(n) takes min(n, global amount) from the global buffer,
\* the residual from the local buffer, and returns the units taken from both.
C2_RemoveReturnsTotal ==
    last.op = "consumer_remove" =>
        /\ last.from_global = Min(last.n, last.pre.buffer)
        /\ last.from_local =
               Min(last.n - last.from_global, last.pre.cbuffer[last.c])
        /\ last.pre.buffer - buffer.amount = last.from_global
        /\ last.pre.cbuffer[last.c] - cbuffer[last.c].amount = last.from_local
        /\ last.ret = last.from_global + last.from_local

\* C3: every Resource.add(n) places exactly n units: the increase of the
\* consumers' local amounts plus the increase of the global amount is n (the
\* code has no rejection: Resource.add reports a boolean and turns no unit
\* away, so the rejected count is 0).
C3_UnitConservation ==
    last.op = "add" =>
        (SumAmounts - SumBefore) + (buffer.amount - last.pre.buffer) = last.n

\* C3 witness: an add that filled a consumer and spilled into the global buffer
C3_Witness ==
    /\ last.op = "add"
    /\ last.n > 1
    /\ SumAmounts > SumBefore
    /\ buffer.amount > last.pre.buffer

\* C4 (as claimed): Resource.add returns keep_coming = true exactly when the
\* global buffer is not full at the end of the call.
C4_KeepComingIffNotFull ==
    last.op = "add" => (last.keep_coming <=> ~IsFull(buffer))

\* C4 (amended): Resource.add returns keep_coming = true exactly when nothing
\* remained to spill after the consumer passes or the global buffer is not
\* full after the spill.
C4_KeepComingAmended ==
    last.op = "add" =>
        (last.keep_coming <=> (last.remaining = 0 \/ ~IsFull(buffer)))

\* C4 witness: an add that spilled nothing into a full global buffer and
\* answered keep_coming = true
C4_Witness ==
    /\ last.op = "add"
    /\ last.remaining = 0
    /\ IsFull(buffer)
    /\ last.keep_coming

\* C5: with no consumer attached and an initially empty global buffer, after
\* any sequence of Resource.add calls the global amount is min(sum, limit).
C5_AddSequenceClamped ==
    added >= 0 => buffer.amount = Min(added, buffer.limit)

\* C6: an add of n > k*L_c + L into an empty global buffer and k empty
\* consumers of limit L_c fills every consumer, leaves exactly L units in the
\* global buffer and returns keep_coming = false.
C6_SaturationSpill ==
    \A lc \in 1..MaxConsumerLimit :
        ( /\ last.op = "add"
          /\ last.pre.buffer = 0
          /\ EmptyEqualConsumers(lc)
          /\ last.n > Cardinality(last.pre.consumers) * lc + buffer.limit )
        => /\ \A c \in consumers : cbuffer[c].amount = lc
           /\ buffer.amount = buffer.limit
           /\ ~last.keep_coming

\* C7: an add of n <= k*L_c into an empty global buffer and k >= 1 empty
\* consumers of limit L_c leaves the global buffer empty, puts n units into
\* the consumers and returns keep_coming = true, whatever the shuffle.
C7_DistributionFills ==
    \A lc \in 1..MaxConsumerLimit :
        ( /\ last.op = "add"
          /\ last.pre.buffer = 0
          /\ last.pre.consumers # {}
          /\ EmptyEqualConsumers(lc)
          /\ last.n <= Cardinality(last.pre.consumers) * lc )
        => /\ buffer.amount = 0
           /\ SumAmounts = last.n
           /\ last.keep_coming

\* C7 witness: three units went to two empty consumers of limit two
C7_Witness ==
    /\ last.op = "add"
    /\ last.n = 3
    /\ last.pre.buffer = 0
    /\ last.pre.consumers = ConsumerIds
    /\ EmptyEqualConsumers(2)
    /\ SumAmounts = 3

\* C8: whenever an operation takes the global buffer from full to not full,
\* every registered demand-event is set.
C8_WakeOnEveryDrain ==
    (WasFull /\ ~IsFull(buffer)) => \A e \in request_events : is_set[e]

\* C9: Resource.remove(1) on a full global buffer sets every registered
\* demand-event; a Resource.remove that does not take the buffer from full to
\* not full sets none; a set event of an open stream stays set until its
\* handler clears it.
C9_DemandEventWake ==
    /\ (last.op = "remove" /\ last.n = 1 /\ WasFull)
           => \A e \in request_events : is_set[e]
    /\ (last.op = "remove" /\ ~(WasFull /\ ~IsFull(buffer)))
           => is_set = last.pre.is_set
    /\ \A e \in request_events :
           (last.pre.is_set[e] /\ ~is_set[e])
               => (last.op = "offer_clear" /\ last.e = e)

\* C10: while an OfferProduction stream is open and the global buffer is not
\* full, a ProductionRequest is eventually emitted on the stream after the
\* buffer last became not full, unless the buffer fills again or the stream
\* ends.
C10_NoLostDemand ==
    \A e \in EventIds :
        (offer[e] # "closed" /\ ~IsFull(buffer) /\ ~requested[e])
            ~> (requested[e] \/ IsFull(buffer) \/ offer[e] = "closed")

\* C11: the Produce handler adds each amount frame once, in arrival order,
\* before it takes the next; at the first add that answers keep_coming = false
\* the stream ends with RESOURCE_EXHAUSTED and no later frame is added; when
\* every add answered true the stream ends normally with the iterator.
C11_ProduceBackpressure ==
    /\ \A p \in ProducerIds :
           LET h == produce[p]
           IN  /\ h.n_add <= h.n_recv /\ h.n_recv <= h.n_add + 1
               /\ h.pc = "adding" <=> h.n_recv = h.n_add + 1
               /\ h.stopped <=> h.pc = "exhausted"
               /\ h.pc = "done" => ~h.stopped /\ h.n_add = h.n_recv
    /\ (last.op = "add" /\ ~last.keep_coming)
           => \E p \in ProducerIds : produce[p].pc = "exhausted"

\* C11 witness: a stream whose first add answered true was ended with
\* RESOURCE_EXHAUSTED by its second add
C11_Witness ==
    \E p \in ProducerIds :
        /\ produce[p].pc = "exhausted"
        /\ produce[p].n_add = 2
        /\ last.op = "add" /\ ~last.keep_coming

\* C12: a Produce stream is ended with RESOURCE_EXHAUSTED only after a state
\* in which the global buffer held exactly limit units.
C12_ExhaustedAfterAtLimit ==
    \A p \in ProducerIds :
        produce[p].pc = "exhausted"
            => (last.at_limit \/ buffer.amount = buffer.limit)

C14_DuplicateLeavesConsumer ==
    [][ last'.op \in {"create_conflict", "consume_duplicate"}
          => /\ last'.c \in consumers'
             /\ last'.code \in {"409", "FAILED_PRECONDITION"}
             /\ UNCHANGED <<buffer, consumers, attached, cbuffer, notifier,
                            tasks, streamVars>> ]_vars

\* C14 witness: a Consume stream was rejected for the id of a consumer that
\* holds units and has a notifier
C14_Witness ==
    /\ last.op = "consume_duplicate"
    /\ cbuffer[last.c].amount > 0
    /\ notifier[last.c] # "none"

\* C15: a stream opened without client-id, for an unknown resource or (Produce)
\* without an init resource_id ends with FAILED_PRECONDITION; no demand-event
\* is registered, no consumer is created, no buffer changes, and the other
\* streams stay as they are.
C15_PreconditionAbort ==
    [][ last'.op \in {"offer_abort", "produce_abort", "consume_abort"}
          => /\ last'.code = "FAILED_PRECONDITION"
             /\ UNCHANGED <<buffer, cbuffer, consumers, attached, notifier,
                            tasks, request_events, is_set, offer, consume>>
             /\ \A p \in ProducerIds :
                    produce'[p] = produce[p]
                        \/ (last'.e = p /\ produce'[p].pc = "failed") ]_vars

\* C15 witness: a stream was aborted while an OfferProduction stream waited, a
\* consumer was attached and the global buffer held units
C15_Witness ==
    /\ last.op \in {"offer_abort", "produce_abort", "consume_abort"}
    /\ request_events # {}
    /\ consumers # {}
    /\ buffer.amount > 0

\* C16: Resource.add_consumer(c) attaches c and, when the global buffer holds
\* G > 0 units, moves exactly min(G, c.limit - c.amount) units from the global
\* buffer into c's local buffer, which never exceeds its limit; with G = 0 no
\* buffer changes.
C16_AttachDrain ==
    last.op = "create" =>
        LET G == last.pre.buffer
            moved == last.pre.buffer - buffer.amount
        IN  /\ last.c \in consumers
            /\ moved = Min(G, cbuffer[last.c].limit - last.pre.cbuffer[last.c])
            /\ cbuffer[last.c].amount = last.pre.cbuffer[last.c] + moved
            /\ cbuffer[last.c].amount <= cbuffer[last.c].limit
            /\ \A c \in consumers \ {last.c} :
                   cbuffer[c].amount = last.pre.cbuffer[c]

\* C17: at most one invocation of a notifier's notify is in flight at any
\* time, and it holds the notifier's lock until it has returned and its taken
\* amount has been removed, so that no second invocation begins before.
C17_NotifierMutex ==
    \A c \in ConsumerIds :
        /\ in_flight[c] <= 1
        /\ in_flight[c] = 1 => nlock[c]
        /\ (last.op = "notify_begin" /\ last.c = c) => in_flight[c] = 1

\* C17 witness: an invocation is in flight while a second notify task of the
\* same consumer waits for the lock
C17_Witness ==
    \E c \in consumers :
        in_flight[c] = 1 /\ tasks[c] > 0 /\ cbuffer[c].amount > handed[c]

\* C19: when the notifier's notify raises, the local buffers and the global
\* buffer are as they were, the notifier's lock is free, and a waiting notify
\* task of the consumer can enter and offer the units again.
C19_NotifierFailure ==
    last.op = "notify_fail" =>
        /\ buffer.amount = last.pre.buffer
        /\ Amounts = last.pre.cbuffer
        /\ ~nlock[last.c]
        /\ tasks[last.c] > 0 => ENABLED NotifyEnter(last.c)

\* C19 witness: the notify raised while units were offered and a further
\* notify task of the consumer is waiting
C19_Witness ==
    /\ last.op = "notify_fail"
    /\ last.n > 0
    /\ tasks[last.c] > 0

\* C18: when the notifier is handed the local amount and returns
\* taken <= amount, exactly taken units leave the consumer's local buffer and
\* the global buffer keeps its amount.
C18_NotifyTakesLocal ==
    ( /\ last.op = "notify"
      /\ last.pre.cbuffer[last.c] > 0
      /\ last.n <= last.pre.cbuffer[last.c] )
    => /\ cbuffer[last.c].amount = last.pre.cbuffer[last.c] - last.n
       /\ buffer.amount = last.pre.buffer

\* C20: when the notifier reports more taken than the local buffer held, at
\* most the units that were available are removed, no amount becomes negative,
\* and the warning is raised exactly when fewer units than taken were removed
\* from the buffers.
C20_ShortfallClamped ==
    ( /\ last.op = "notify"
      /\ last.pre.cbuffer[last.c] > 0
      /\ last.n > last.pre.cbuffer[last.c] )
    => /\ last.from_global + last.from_local <= last.pre.cbuffer[last.c]
       /\ buffer.amount >= 0
       /\ cbuffer[last.c].amount >= 0
       /\ last.warned <=> (last.from_global + last.from_local < last.n)


\* C21: every iteration of the Consume loop emits, in its ResourceConsumption
\* frame, exactly the units that its consumer.remove call took out of the
\* global and the local buffer; no unit leaves a buffer without being emitted.
C21_ConsumeDeliversPulled ==
    last.op = "consume_pull"
        => last.emitted = last.from_global + last.from_local


\* C22: the Resource's demand-event set holds exactly the events of the
\* OfferProduction streams that are open: a stream that ends, at any point of
\* its wait/emit/clear loop, has deregistered its event.
C22_OfferCleanup ==
    request_events = {e \in EventIds : offer[e] # "closed"}

\* C22 witness: a stream that had emitted a ProductionRequest ended and its
\* event left the set while another stream stays registered
C22_Witness ==
    /\ last.op = "offer_close"
    /\ last.e \notin request_events
    /\ request_events # {}
    /\ \E e \in request_events : offer[e] = "yielded"

\* C25: Resource.add_request_event(e) puts e in the demand-event set and sets
\* it exactly when the global buffer is not full at that moment; an event of
\* the set that is unset becomes set only by an operation that takes the
\* global buffer from full to not full.
C25_AddRequestEvent ==
    /\ last.op = "offer_open"
           => /\ last.e \in request_events
              /\ is_set[last.e] <=> ~IsFull(buffer)
    /\ \A e \in request_events :
           (is_set[e] /\ ~last.pre.is_set[e]
                /\ ~(last.op = "offer_open" /\ last.e = e))
               => (WasFull /\ ~IsFull(buffer))

\* C25 witness: an event was registered while the global buffer was full and
\* is left unset
C25_Witness ==
    /\ last.op = "offer_open"
    /\ IsFull(buffer)
    /\ last.e \in request_events
    /\ ~is_set[last.e]


\* C23: when a Consume stream that created a consumer has ended, at any point
\* of its loop, Consumer.get finds nothing under the id, the consumer is not
\* in the Resource's consumer set nor in the session's map, and a Consume
\* stream can create a consumer with the same id again; the session's map
\* holds exactly the consumers of the client's open streams.
C23_ConsumeCleanup ==
    /\ last.op = "consume_close"
           => /\ ConsumerGet(last.c) = None
              /\ last.c \notin consumers
              /\ attached[last.c] = 0
              /\ \A k \in ClientIds : last.c \notin clients[k].consumers
              /\ ENABLED ConsumeOpen(last.e, last.c, 1)
    /\ \A k \in ClientIds :
           clients[k].consumers =
               {consume[s].c : s \in {t \in StreamIds :
                                         consume[t].client = k}}

\* C23 witness: a stream ended whose consumer held units and had been listed
\* in the session's map
C23_Witness ==
    /\ last.op = "consume_close"
    /\ last.c \in last.pre.consumers
    /\ last.pre.cbuffer[last.c] > 0
    /\ \E k \in ClientIds : clients[k].made = 1


\* C24: the admin consume operation answers 404 and changes no buffer, no
\* consumer and no event for a consumer that has a notifier and for an
\* unknown consumer id; it calls Consumer.remove only for an existing
\* consumer without notifier.
C24_ManualConsumeRefused ==
    /\ last.op \in {"consume_refused", "consume_not_found"}
           => /\ last.code = "404"
              /\ buffer.amount = last.pre.buffer
              /\ Amounts = last.pre.cbuffer
              /\ consumers = last.pre.consumers
              /\ is_set = last.pre.is_set
    /\ last.op = "consume_refused"
           => last.c \in consumers /\ notifier[last.c] # "none"
    /\ last.op = "consume_not_found" => last.c \notin consumers
    /\ last.op = "consumer_remove"
           => last.c \in consumers /\ notifier[last.c] = "none"

\* C24 witness: manual consumption of a positive amount was refused for a
\* consumer with a notifier while it and the global buffer held units
C24_Witness ==
    /\ last.op = "consume_refused"
    /\ last.n > 0
    /\ cbuffer[last.c].amount > 0
    /\ buffer.amount > 0


\* C26: for every client id at most one Client is ever made, however many
\* handlers call Client.get with it; an entry of the registry is never
\* removed or replaced, and the session's consumer map changes only when a
\* Consume stream of the client adds or removes its consumer.
C26_ClientGetIdempotent ==
    [][ \A k \in ClientIds :
            /\ clients'[k].made <= 1
            /\ clients'[k].made >= clients[k].made
            /\ clients'[k].consumers # clients[k].consumers
                   => last'.op \in {"create", "consume_close"} ]_vars

\* C26 witness: a further handler called Client.get with the id of a session
\* that exists and holds a consumer
C26_Witness ==
    /\ last.op \in {"offer_open", "produce_open", "consume_duplicate",
                     "offer_abort", "produce_abort", "consume_abort"}
    /\ \E k \in ClientIds :
           clients[k].made = 1 /\ clients[k].consumers # {}


\* C27: when the write_metrics task has finished after the shutdown event
\* was set, every point that was in its batch at that moment has been
\* written to the sink.
C27_ShutdownFlushesBatch ==
    write_metrics \in {"done", "crashed"} => held = 0


LockTasks == AddIds \cup RemoveIds

\* task t waits for a buffer lock that task u holds
WaitsFor(t, u) ==
    \E c \in ConsumerIds :
        t \in Range(lockq[c]) /\ ~Holds(t, c) /\ Holds(u, c)

C29_DistributionAtomic ==
    /\ \A t \in AddIds :
           adds[t].pc = "passes" => \A c \in adds[t].consumers : Holds(t, c)
    /\ last.op = "consumer_remove" => ~last.between

\* C29 witness: a Consumer.remove call waits for the lock of a consumer while
\* the distribution that holds it is between two passes
C29_Witness ==
    \E r \in RemoveIds, t \in AddIds :
        /\ removes[r].pc = "local"
        /\ Holds(t, removes[r].c)
        /\ adds[t].pc = "passes"
        /\ adds[t].remaining > 0 /\ adds[t].distributable # <<>>

Gained(c) == cbuffer[c].amount - last.pre.cbuffer[c]

\* ceil(n / k)
CeilDiv(n, k) == (n + k - 1) \div k

\* every consumer of the add that ran last had room for ceil(n / k) units
RoomForShare ==
    \A c \in last.pre.consumers :
        cbuffer[c].limit - last.pre.cbuffer[c]
            >= CeilDiv(last.n, Cardinality(last.pre.consumers))

\* C31: when each of the k >= 1 consumers has room for ceil(n/k) units, an
\* add of n gives the i-th consumer of the shuffle floor(n/k) units, and one
\* more to the first n mod k of them, no consumer gets nothing when n >= k,
\* and the global buffer gets nothing.
C31_FairSplit ==
    ( /\ last.op = "add"
      /\ last.pre.consumers # {}
      /\ RoomForShare )
    => LET k == Cardinality(last.pre.consumers)
       IN  /\ \A i \in 1..k :
                  Gained(last.order[i]) =
                      (last.n \div k) + (IF i <= last.n % k THEN 1 ELSE 0)
           /\ last.n >= k => \A c \in last.pre.consumers : Gained(c) > 0
           /\ buffer.amount = last.pre.buffer

\* C31 witness: three units over two consumers with room: two for the first
\* of the shuffle, one for the second
C31_Witness ==
    /\ last.op = "add"
    /\ last.n = 3
    /\ Len(last.order) = 2
    /\ RoomForShare
    /\ Gained(last.order[1]) = 2
    /\ Gained(last.order[2]) = 1

\* C32: an add that increases the global amount leaves every consumer of its
\* distribution with exactly limit units.
C32_ToppedUpBeforeSpill ==
    (last.op = "add" /\ buffer.amount > last.pre.buffer)
        => \A c \in last.pre.consumers :
               cbuffer[c].amount = cbuffer[c].limit

\* C32 witness: an add that filled up a consumer that had room and spilled
\* the rest, with a second consumer attached
C32_Witness ==
    /\ last.op = "add"
    /\ buffer.amount > last.pre.buffer
    /\ last.pre.consumers = ConsumerIds
    /\ \E c \in ConsumerIds : Gained(c) > 0

\* C33: the affected set of a distribution is the set of the consumers whose
\* local buffer gained at least one unit, and Resource.add notifies each of
\* them once and no other consumer.
C33_AffectedNotified ==
    last.op = "add"
        => /\ last.affected = {c \in ConsumerIds : Gained(c) > 0}
           /\ \A c \in ConsumerIds :
                  last.notified[c] =
                      IF c \in last.affected /\ notifier[c] # "none"
                      THEN 1 ELSE 0

\* C33 witness: of two consumers with notifiers one gained units and was
\* notified, the other, which was full, was not
C33_Witness ==
    /\ last.op = "add"
    /\ last.pre.consumers = ConsumerIds
    /\ \A c \in ConsumerIds : notifier[c] # "none"
    /\ \E c \in ConsumerIds : Gained(c) > 0 /\ last.notified[c] = 1
    /\ \E c \in ConsumerIds : Gained(c) = 0 /\ last.notified[c] = 0

\* C34: a distribution that leaves nothing to spill answers keep_coming =
\* true and leaves the remainder buffer alone; one that leaves units puts all
\* of them into the remainder buffer and answers whether that buffer is not
\* full afterwards.
C34_DistributeKeepComing ==
    last.op = "add"
        => /\ last.remaining >= 0
           /\ last.remaining = 0
                  => (last.keep_coming /\ buffer.amount = last.pre.buffer)
           /\ last.remaining > 0
                  => /\ buffer.amount = last.pre.buffer + last.remaining
                     /\ last.keep_coming <=> ~IsFull(buffer)

\* C34 witness: a distribution over a consumer that left units, put them into
\* the remainder buffer and answered false
C34_Witness ==
    /\ last.op = "add"
    /\ last.pre.consumers # {}
    /\ last.remaining > 0
    /\ buffer.amount = last.pre.buffer + last.remaining
    /\ ~last.keep_coming

\* C35: when a distribution goes on to a further pass, every consumer that is
\* a candidate in it has room; a consumer that a pass filled up exactly is
\* none of them.
C35_CandidatesHaveRoom ==
    \A t \in AddIds :
        (adds[t].pc = "passes" /\ adds[t].remaining > 0)
            => \A i \in 1..Len(adds[t].distributable) :
                   ~IsFull(cbuffer[adds[t].distributable[i]])

\* C38: an add of n takes no unit away from a consumer and puts at most n
\* units into the global buffer.
C38_DistributeNeverTakes ==
    last.op = "add"
        => /\ \A c \in last.pre.consumers : Gained(c) >= 0
           /\ buffer.amount - last.pre.buffer <= last.n

\* the Resource.add call t made a pass in this step
PassOf(t) ==
    /\ last'.op = "add_pass"
    /\ adds[t].pc \in {"gather", "passes"}
    /\ Gathered(t)

\* C39: every pass of a distribution assigns a unit or drops a candidate, and
\* drops no candidate only if it lowers the remaining amount, so the loop
\* ends; a call that has ended holds and awaits no consumer lock.
C39_DistributeTerminates ==
    [][ /\ \A t \in AddIds :
              PassOf(t)
                  => /\ \/ Len(adds'[t].distributable)
                               < Len(adds[t].distributable)
                        \/ \E c \in ConsumerIds :
                               cbuffer'[c].amount > cbuffer[c].amount
                     /\ \/ Len(adds'[t].distributable)
                               < Len(adds[t].distributable)
                        \/ /\ Len(adds'[t].distributable)
                                  = Len(adds[t].distributable)
                           /\ adds'[t].remaining < adds[t].remaining
        /\ \A t \in AddIds :
              adds'[t].pc = "idle"
                  => \A c \in ConsumerIds : t \notin Range(lockq'[c])
      ]_vars

\* C39 witness: a pass that dropped a consumer above its limit has run, and
\* the call has ended with all locks released
C39_Witness ==
    /\ last.op = "add"
    /\ \E c \in last.pre.consumers : cbuffer[c].amount >= cbuffer[c].limit
    /\ last.remaining > last.n
    /\ \A t \in AddIds : adds[t].pc = "idle"
    /\ \A c \in ConsumerIds : lockq[c] = <<>>


\* C36: while a Consume stream is open, units in the local buffer of its
\* consumer are eventually emitted on the stream, unless the stream ends.
C36_ConsumeLiveness ==
    \A s \in StreamIds :
        (consume[s].pc # "closed" /\ cbuffer[consume[s].c].amount > 0)
            ~> (consume[s].pc = "closed" \/ last.emitted > 0)


\* the request of example S5: max_rate 60, buffer_limit 60 and
\* current_buffer_amount 60, at its first pull after a sleep of the time asked
ExampleS5 ==
    /\ band.buffer_limit = 60 /\ band.max_rate = 60
    /\ band.pull.n = 1
    /\ band.pull.slept = 45

\* C37 (as claimed): the handler pulls only when the assumed amount is at
\* most 25% of L, requests round(0.75 * L - A) units, which is positive, and
\* the assumed amount right after the pull is at most 75% of L; in example S5
\* the first pull comes when 45 units have drained and requests 30.
C37_HandlerBand ==
    band.pc = "pulled"
        => /\ band.pull.now <= band.buffer_limit
           /\ band.pull.request
                  = Round(3 * band.buffer_limit - band.pull.now)
           /\ band.pull.request > 0
           /\ band.pull.now + 4 * band.pull.amount <= 3 * band.buffer_limit
           /\ ExampleS5
                  => (band.pull.drained = 4 * 45 /\ band.pull.request = 30)

\* C37 (amended): the handler pulls only when the assumed amount is at most
\* 25% of L, requests round(0.75 * L - A) units with halves rounded to the
\* even integer, which is at least 0 and positive for L >= 2, and the
\* assumed amount right after the pull is at most 75% of L plus half a
\* unit; in example S5 the first pull comes when 45 units have drained and
\* requests 30.
C37_HandlerBandAmended ==
    band.pc = "pulled"
        => /\ band.pull.now <= band.buffer_limit
           /\ band.pull.request
                  = Round(3 * band.buffer_limit - band.pull.now)
           /\ band.pull.request >= 0
           /\ band.buffer_limit >= 2 => band.pull.request > 0
           /\ band.pull.now + 4 * band.pull.amount
                  <= 3 * band.buffer_limit + 2
           /\ ExampleS5
                  => (band.pull.drained = 4 * 45 /\ band.pull.request = 30)

\* C37 witness: the first pull of example S5 got the 30 units it asked for
C37_Witness ==
    /\ band.pc = "pulled"
    /\ ExampleS5
    /\ band.pull.now = 4 * 15
    /\ band.pull.amount = 30

\* C40: once main has set metrics_shutdown_event, write_metrics ends: it
\* leaves its loop at the next loop test (or ends with the exception of a
\* failed write of the outer handler), whether the queue stays empty or
\* every write to the sink fails, so the wait of main on the task completes
C40_WriterTerminates ==
    metrics_shutdown ~> (write_metrics \in {"done", "crashed"})

\* the writer has left its loop after the shutdown with a batch that a
\* failed write and the sleep after it left unwritten, the queue empty
C40_Witness ==
    /\ metrics_shutdown
    /\ write_metrics = "done"
    /\ batch > 0
    /\ flush_due
    /\ metrics_queue = 0

====
